---- MODULE Spec2Model ----
(***************************************************************************)
(* A model of the specMech client of yao (src/yao/mech_controller.py) and  *)
(* of the mech operations built on it (src/yao/mech_commands.py).          *)
(*                                                                         *)
(* Spec     : the client.  Concurrent callers of MechController.send_data, *)
(*            the asyncio lock, the TCP stream with its two directions,    *)
(*            start() and close().                                         *)
(* FairSpec : Spec with the event loop's fairness for the callers' steps.  *)
(***************************************************************************)
EXTENDS Integers, Sequences, FiniteSets, TLC

\* ------------------------------------------------------------------ bounds

\* Number of concurrent callers of send_data.
NumTasks == 2

\* Cap on command_number (the code's counter is unbounded).
MaxCommandNumber == 2

Tasks == 1..NumTasks

\* No task: the lock is free.
NoTask == 0

\* ------------------------------------------------------- replies and parse

\* ReplyCode members (enum).
ReplyCode ==
    { "VALID", "UNPARSABLE_RESPONSE", "MISMATCHED_COMMAND_ID",
      "INVALID_COMMAND_CHECKSUM", "INVALID_REPLY_CHECKSUM", "ERR_IN_REPLY",
      "CONTROLLER_REBOOTED", "REBOOT_ACKNOWLEDGED", "CONNECTION_FAILED" }

\* A raw reply is a sequence of lexemes, each standing for a run of bytes:
\*   bang  the byte `!`                 gt    the byte `>`
\*   tn    a telnet block \xff..\xf0    nl    \x00?\n before the terminator
\*   echo  `$S2CMD,<cmd>;<id>*HH\r`, ok = its checksum verifies
\*   sent  `$S2<TAG>,<fields>*HH`, ok = its checksum verifies, f = the fields
\*         an operation reads
\*   junk  bytes that match none of the above
Lx(k) == [k |-> k]
Echo(ok) == [k |-> "echo", ok |-> ok]
Sent(tag, ok) == [k |-> "sent", tag |-> tag, ok |-> ok, f |-> <<>>]
SentF(tag, f) == [k |-> "sent", tag |-> tag, ok |-> TRUE, f |-> f]

Kinds(raw) == { raw[i].k : i \in DOMAIN raw }

\* Index of the first lexeme of kind k in raw (0 when there is none).
FirstIdx(raw, k) ==
    IF k \in Kinds(raw)
    THEN CHOOSE i \in DOMAIN raw :
            raw[i].k = k /\ \A j \in 1..(i - 1) : raw[j].k # k
    ELSE 0

\* match1: the part before the first `>`, without a leading telnet block and
\* without the \x00?\n? that precedes the terminator.
Payload(raw) ==
    LET g == FirstIdx(raw, "gt")
        a == IF Len(raw) > 0 /\ raw[1].k = "tn" /\ g > 1 THEN 2 ELSE 1
        b == IF g > a /\ raw[g - 1].k = "nl" THEN g - 2 ELSE g - 1
    IN SubSeq(raw, a, b)

RECURSIVE ParseReplies(_, _, _)
\* The loop over reply_list: the first bad checksum ends the parse; bytes with
\* no `*HH` make check_checksum raise ValueError; an ERR sentence sets the
\* code and the loop goes on.
ParseReplies(replies, code, data) ==
    IF replies = <<>> THEN [code |-> code, data |-> data]
    ELSE LET r == Head(replies) IN
         IF r.k = "sent" /\ ~r.ok
         THEN [code |-> "INVALID_REPLY_CHECKSUM", data |-> data]
         ELSE IF r.k # "sent"
         THEN [code |-> "ValueError", data |-> data]
         ELSE ParseReplies(Tail(replies),
                           IF r.tag = "ERR" THEN "ERR_IN_REPLY" ELSE code,
                           Append(data, r))

\* (variant of Parse) the checksum of the command echo is not verified.
Parse_EchoUnchecked(raw) ==
    IF "bang" \in Kinds(raw)
    THEN [code |-> "CONTROLLER_REBOOTED", data |-> <<>>]
    ELSE IF "gt" \notin Kinds(raw)
    THEN [code |-> "UNPARSABLE_RESPONSE", data |-> <<>>]
    ELSE LET data == Payload(raw) IN
         IF data = <<>>
         THEN [code |-> "REBOOT_ACKNOWLEDGED", data |-> <<>>]
         ELSE IF Head(data).k # "echo"
         THEN [code |-> "UNPARSABLE_RESPONSE", data |-> <<>>]
         ELSE ParseReplies(Tail(data), "VALID", <<>>)

\* SpecMechReply.parse: the code and the data of a raw reply.
Parse(raw) ==
    IF "bang" \in Kinds(raw)
    THEN [code |-> "CONTROLLER_REBOOTED", data |-> <<>>]
    ELSE IF "gt" \notin Kinds(raw)
    THEN [code |-> "UNPARSABLE_RESPONSE", data |-> <<>>]
    ELSE LET data == Payload(raw) IN
         IF data = <<>>
         THEN [code |-> "REBOOT_ACKNOWLEDGED", data |-> <<>>]
         ELSE IF Head(data).k # "echo"
         THEN [code |-> "UNPARSABLE_RESPONSE", data |-> <<>>]
         ELSE IF ~Head(data).ok
         THEN [code |-> "INVALID_COMMAND_CHECKSUM", data |-> <<>>]
         ELSE ParseReplies(Tail(data), "VALID", <<>>)

\* read_data's loop condition: the accumulated bytes hold `>` or `!`.
Terminated(raw) == "gt" \in Kinds(raw) \/ "bang" \in Kinds(raw)

\* ------------------------------------------------------------------- state

VARIABLES
    writer,          \* MechController.writer: "None" or "open"
    reader,          \* MechController.reader: "None" or "open"
    reboot,          \* MechController.reboot
    command_number,  \* MechController.command_number
    lock,            \* holder of MechController.lock, NoTask when free
    waiters,         \* callers queued on the lock, in arrival order
    pc,              \* per caller: "idle", "lock", "read", "done"
    command,         \* per caller: the frame it has built
    timeout,         \* per caller: whether send_data was given a timeout
    dataRaw,         \* per caller: bytes accumulated by read_data
    reply,           \* per caller: how its send_data ended
    wire,            \* frames written and not yet answered by the specMech
    net,             \* reply bytes on their way to the client
    inbuf,           \* bytes in the StreamReader's buffer
    eof,             \* the StreamReader was fed EOF
    exc,             \* the StreamReader holds a connection-reset exception
    dropped,         \* a send cleared the handles and start() has not run since
    op,              \* the mech operation in progress and its arguments
    opc,             \* where its handler stands
    term,            \* its terminating message: "none", "finish", "fail"
    warnings,        \* warning messages it has emitted
    written,         \* commands it has written to the wire
    lastCode,        \* code of the reply its last send_data returned
    statIdx,         \* status: index of the stat being processed
    status,          \* pneumatic_move: fields of the last `rp` reply read by a poll
    pm,              \* open/close: the pneumatic_move coroutines
    mv,              \* move: the locals of the handler
    opsDone,         \* operations completed
    mech_rebooted,   \* the specMech has rebooted and was not acknowledged
    rebootSeen,      \* a send returned CONTROLLER_REBOOTED, no ack since
    underReboot,     \* the operation started while rebootSeen
    alerts_bot,      \* YaoActor.alerts_bot: "None", "running", "stopped"
    alert,           \* per alert: its task, _value, _values_log, last sample
    emitted,         \* per alert: the message the last step wrote for it
    frame,           \* framer: the bytes send_data built, one character each
    echo,            \* framer: the command echo the specMech sent back
    mechReply,       \* the SpecMechReply decoded
    rawReply,        \* check_reply: the raw reply read, as lexemes
    checked,         \* check_reply: how it ended, "none" before the call
    statArg,         \* get_stat: its argument, "None" before the call
    statSent,        \* get_stat: the commands it passed to send_data
    result,          \* get_stat: what it returned or raised
    message,         \* check_checksum: its argument, one character each
    verdict,         \* check_checksum: what it computed and returned
    actor,           \* YaoActor: its state and the time-sync task
    closeResult,     \* how the last close() since start() ended, "none" without one
    pending,         \* the frames whose replies are in the stream, oldest first
    answered,        \* per caller: the frame it wrote and the frame its reply answers
    delegate         \* YaoDelegate: shutter_failed, the exposure and its last call

vars == << writer, reader, reboot, command_number, lock, waiters, pc, command,
           timeout, dataRaw, reply, wire, net, inbuf, eof, exc, dropped,
           op, opc, term, warnings, written, lastCode, statIdx, status, pm, mv,
           opsDone,
           mech_rebooted, rebootSeen, underReboot,
           alerts_bot, alert, emitted,
           frame, echo, mechReply, rawReply, checked,
           statArg, statSent, result, message, verdict,
           actor, closeResult, pending, answered, delegate >>

clientVars == << writer, reader, reboot, command_number >>
lockVars == << lock, waiters >>
taskVars == << pc, command, timeout, dataRaw, reply >>
streamVars == << wire, net, inbuf, eof, exc >>
opVars == << op, opc, term, warnings, written, lastCode, statIdx, status, pm, mv,
           opsDone,
            mech_rebooted, rebootSeen, underReboot >>

alertVars == << alerts_bot, alert, emitted >>
codecVars == << frame, echo, mechReply, rawReply, checked >>
statVars == << statArg, statSent, result >>
checksumVars == << message, verdict >>
hostVars == << actor, closeResult, pending, answered, delegate >>

NoFrame == [cmd |-> "", id |-> 0]

\* pneumatic_move's mechanisms.
Mechanisms == {"shutter", "left", "right"}

NoOp == [kind |-> "none"]
NoMove == [pc |-> "off", ii |-> 0, polls |-> 0, warned |-> 0]

\* No operation has been dispatched.
\* move before it runs: current is the int16 array, pos the positions the
\* motors reported, final the int16 array checked against the range,
\* rejected whether the argument checks failed the command, commands the
\* elements of mech_commands handed to send_data, each with its position.
NoMv ==
    [ pc |-> "off", ii |-> 0, pos |-> << 0, 0, 0 >>, current |-> << 0, 0, 0 >>,
      final |-> << 0, 0, 0 >>, new |-> << >>, ntry |-> 0, moving |-> FALSE, limited |-> FALSE,
      bounds |-> TRUE, rejected |-> FALSE, commands |-> << >> ]

OpIdle ==
    /\ op = NoOp
    /\ opc = "idle"
    /\ term = "none"
    /\ warnings = 0
    /\ written = <<>>
    /\ lastCode = "none"
    /\ statIdx = 0
    /\ status = <<>>
    /\ pm = [m \in Mechanisms |-> NoMove]
    /\ mv = NoMv
    /\ opsDone = 0
    /\ rebootSeen = FALSE
    /\ underReboot = FALSE

\* The alert classes of AlertsBot.__init__; the four temperature alerts differ
\* in their configuration only, two of them are kept.
TemperatureAlerts == {"r2_ccd_temp_alert", "b2_ccd_temp_alert"}
Alerts == TemperatureAlerts \cup {"yao_heartbeat"}

NoAlert == [task |-> "None", value |-> FALSE, values_log |-> << >>, sample |-> "none"]
Silent == [a \in Alerts |-> "none"]

\* YaoActor.__init__: no alerts bot yet.
AlertsOff ==
    /\ alerts_bot = "None"
    /\ alert = [a \in Alerts |-> NoAlert]
    /\ emitted = Silent

\* The actor after construction: not started, no time-sync task.  last is
\* the time string of the last set-time, slept the length of the last sleep
\* and failed whether the last set-time failed.
NoActor ==
    [ state |-> "created", connected |-> FALSE, task |-> "None", issued |-> 0,
      last |-> << >>, slept |-> 0, failed |-> FALSE ]

\* No reply was returned to the caller.
NoAnswer == [sent |-> [cmd |-> "", id |-> 0], got |-> [cmd |-> "", id |-> 0]]

\* The delegate after construction: no exposure data, shutter_failed False.
\* call is the last method run, with its argument (open), the way
\* pneumatic_move ended in it (outcome), what it returned or raised
\* (returned) and the shutter commands issued so far (moves).
NoDelegate ==
    [ shutter_failed |-> FALSE, flavour |-> "None", exposure_time |-> 0,
      call |-> "none", open |-> FALSE, outcome |-> "none", returned |-> "none",
      moves |-> 0 ]

HostIdle ==
    /\ actor = NoActor
    /\ closeResult = "none"
    /\ pending = << >>
    /\ answered = [t \in Tasks |-> NoAnswer]
    /\ delegate = NoDelegate

\* No SpecMechReply was built.
NoReply == [code |-> "None", data |-> << >>]

\* No result of get_stat.
NoResult == [raised |-> "none", branch |-> "none", value |-> << >>]

\* No result of check_checksum.
NoVerdict == [raised |-> "none", calculated |-> << >>, ok |-> FALSE]

\* Nothing was framed, read or checked yet.
CodecIdle ==
    /\ statArg = "None"
    /\ statSent = << >>
    /\ result = NoResult
    /\ message = << >>
    /\ verdict = NoVerdict
    /\ frame = << >>
    /\ echo = << >>
    /\ mechReply = NoReply
    /\ rawReply = << >>
    /\ checked = "none"

\* The client before any connection: handles None, lock free, no caller.
Unconnected ==
    /\ writer = "None"
    /\ reader = "None"
    /\ reboot = FALSE
    /\ lock = NoTask
    /\ waiters = <<>>
    /\ pc = [t \in Tasks |-> "idle"]
    /\ command = [t \in Tasks |-> NoFrame]
    /\ timeout = [t \in Tasks |-> FALSE]
    /\ dataRaw = [t \in Tasks |-> <<>>]
    /\ reply = [t \in Tasks |-> "none"]
    /\ wire = <<>>
    /\ net = <<>>
    /\ inbuf = <<>>
    /\ eof = FALSE
    /\ exc = FALSE
    /\ dropped = FALSE

\* MechController.__init__: not connected, counters at zero, lock free.
Init ==
    /\ OpIdle
    /\ AlertsOff /\ HostIdle
    /\ CodecIdle
    /\ mech_rebooted = FALSE
    /\ writer = "None"
    /\ reader = "None"
    /\ reboot = FALSE
    /\ command_number = 0
    /\ lock = NoTask
    /\ waiters = <<>>
    /\ pc = [t \in Tasks |-> "idle"]
    /\ command = [t \in Tasks |-> NoFrame]
    /\ timeout = [t \in Tasks |-> FALSE]
    /\ dataRaw = [t \in Tasks |-> <<>>]
    /\ reply = [t \in Tasks |-> "none"]
    /\ wire = <<>>
    /\ net = <<>>
    /\ inbuf = <<>>
    /\ eof = FALSE
    /\ exc = FALSE
    /\ dropped = FALSE

\* ------------------------------------------------------------ the specMech

\* The replies that end in the bytes: each ends with `>` or is a `!`.
Terminators(raw) == Cardinality({ i \in DOMAIN raw : raw[i].k \in {"gt", "bang"} })

\* The raw replies the specMech sends in this model.
MechReplies ==
    { << Lx("bang") >>,
      << Lx("gt") >>,
      << Echo(TRUE), Lx("gt") >> }

\* The specMech answers the oldest frame on the wire.
MechReply ==
    /\ UNCHANGED << opVars, alertVars, codecVars, statVars, checksumVars, actor, delegate,
                    closeResult >>
    /\ wire # <<>>
    /\ pending' = Append(pending, Head(wire))
    /\ UNCHANGED answered
    /\ writer = "open" /\ ~eof /\ ~exc
    /\ \E r \in MechReplies : net' = net \o r
    /\ wire' = Tail(wire)
    /\ UNCHANGED << clientVars, lockVars, taskVars, inbuf, eof, exc, dropped >>

\* The next byte run of a reply reaches the StreamReader's buffer.
Deliver ==
    /\ UNCHANGED << opVars, alertVars, codecVars, statVars, checksumVars, hostVars >>
    /\ net # <<>>
    /\ ~eof /\ ~exc
    /\ inbuf' = Append(inbuf, Head(net))
    /\ net' = Tail(net)
    /\ UNCHANGED << clientVars, lockVars, taskVars, wire, eof, exc, dropped >>

\* The peer closes the connection: the StreamReader is fed EOF.
PeerClose ==
    /\ UNCHANGED << opVars, alertVars, codecVars, statVars, checksumVars, actor, delegate,
                    closeResult >>
    /\ pending' = SubSeq(pending, 1, Terminators(inbuf))
    /\ UNCHANGED answered
    /\ writer = "open" /\ ~eof /\ ~exc
    /\ eof' = TRUE
    /\ net' = <<>> /\ wire' = <<>>
    /\ UNCHANGED << clientVars, lockVars, taskVars, inbuf, exc, dropped >>

\* The connection is reset: the StreamReader holds ConnectionResetError.
ConnReset ==
    /\ UNCHANGED << opVars, alertVars, codecVars, statVars, checksumVars, actor, delegate,
                    closeResult >>
    /\ pending' = << >>
    /\ UNCHANGED answered
    /\ writer = "open" /\ ~eof /\ ~exc
    /\ exc' = TRUE
    /\ net' = <<>> /\ wire' = <<>> /\ inbuf' = <<>>
    /\ UNCHANGED << clientVars, lockVars, taskVars, eof, dropped >>

\* -------------------------------------------------------------- the client

\* The stream of cleared handles: nothing of it is read again.
NoStream ==
    /\ wire' = <<>> /\ net' = <<>> /\ inbuf' = <<>>
    /\ pending' = << >>
    /\ eof' = FALSE /\ exc' = FALSE

\* MechController.is_connected (a closing writer is one whose stream ended).
is_connected == writer # "None" /\ ~eof /\ ~exc

\* (variant of LockFree) the state of the lock is not looked at.
LockFree_NotChecked == TRUE

\* asyncio.Lock.acquire without waiting: the lock is free and nobody queues.
LockFree == lock = NoTask /\ waiters = <<>>

\* (variant of RebootAfter) the flag is only ever set.
RebootAfter_Sticky(code) == reboot \/ code = "CONTROLLER_REBOOTED"

\* read_data's update of the reboot flag from the decoded code.
RebootAfter(code) == code = "CONTROLLER_REBOOTED"

\* MechController.start as its callers use it (actor start, reconnect after
\* close): a new stream; the counter and the reboot flag are left alone.
Start ==
    /\ UNCHANGED << opVars, alertVars, codecVars, statVars, checksumVars, actor, delegate,
                    answered >>
    /\ writer = "None" \/ closeResult = "raised"
    /\ closeResult' = "none"
    /\ pending' = << >>
    /\ writer' = "open"
    /\ reader' = "open"
    /\ wire' = <<>> /\ net' = <<>> /\ inbuf' = <<>>
    /\ eof' = FALSE /\ exc' = FALSE
    /\ dropped' = FALSE
    /\ UNCHANGED << reboot, command_number, lockVars, taskVars >>

\* (variant of WaitClosedRaises) wait_closed returns whatever ended the
\* stream.
WaitClosedRaises_Never == FALSE

\* writer.wait_closed() raises the exception the connection was lost with.
WaitClosedRaises == writer # "None" /\ exc

\* MechController.close: closes the writer, waits for it and clears the
\* handles; the lock is not taken.  When wait_closed raises, the handles are
\* left as they are.
Close ==
    /\ UNCHANGED << opVars, alertVars, codecVars, statVars, checksumVars, actor, delegate,
                    answered >>
    /\ IF WaitClosedRaises
       THEN /\ closeResult' = "raised"
            /\ UNCHANGED << writer, reader, streamVars, pending >>
       ELSE /\ closeResult' = "returned"
            /\ writer' = "None"
            /\ reader' = "None"
            /\ NoStream
    /\ UNCHANGED << reboot, command_number, lockVars, taskVars, dropped >>

\* (variant of Frame) the acknowledgement is numbered like any command.
Frame_Numbered(cmd, n) == [cmd |-> cmd, id |-> n]

\* The frame send_data builds: `!\r`, or `<command>;<command_number>\r`.
Frame(cmd, n) == [cmd |-> cmd, id |-> IF cmd = "!" THEN 0 ELSE n]

\* The commands and timeouts callers pass: check_controller's probe, a report
\* and the acknowledgement.
Calls == { << "rt", TRUE >>, << "rp", FALSE >>, << "!", FALSE >> }

\* send_data up to its first suspension: count, frame, check the writer, take
\* the lock if it is free and write, or queue on the lock.
SendData(t) ==
    /\ UNCHANGED << opVars, alertVars, codecVars, statVars, checksumVars, hostVars >>
    /\ pc[t] = "idle"
    /\ \E c \in Calls :
        LET cmd == c[1]
            n == IF cmd = "!" THEN command_number ELSE command_number + 1
        IN /\ n <= MaxCommandNumber
           /\ command_number' = n
           /\ IF writer = "None"
              THEN \* ConnectionResetError("SpecMech client not connected.")
                   /\ reply' = [reply EXCEPT ![t] = "CONNECTION_FAILED"]
                   /\ pc' = [pc EXCEPT ![t] = "done"]
                   /\ writer' = "None" /\ reader' = "None"
                   /\ dropped' = TRUE
                   /\ UNCHANGED << lockVars, wire, command, timeout >>
              ELSE IF LockFree
              THEN /\ lock' = t
                   /\ reader # "None"   \* read_data's entry check passes
                   /\ wire' = Append(wire, Frame(cmd, n))
                   /\ pc' = [pc EXCEPT ![t] = "read"]
                   /\ command' = [command EXCEPT ![t] = Frame(cmd, n)]
                   /\ timeout' = [timeout EXCEPT ![t] = c[2]]
                   /\ UNCHANGED << writer, reader, waiters, reply, dropped >>
              ELSE /\ waiters' = Append(waiters, t)
                   /\ pc' = [pc EXCEPT ![t] = "lock"]
                   /\ command' = [command EXCEPT ![t] = Frame(cmd, n)]
                   /\ timeout' = [timeout EXCEPT ![t] = c[2]]
                   /\ UNCHANGED << writer, reader, lock, wire, reply, dropped >>
    /\ UNCHANGED << reboot, dataRaw, net, inbuf, eof, exc >>

\* A queued caller gets the lock and writes its frame.  The writer handle is
\* read again here: when it was cleared meanwhile, None.write raises
\* AttributeError, which send_data does not catch.
LockAcquired(t) ==
    /\ UNCHANGED << opVars, alertVars, codecVars, statVars, checksumVars, hostVars >>
    /\ pc[t] = "lock"
    /\ lock = NoTask
    /\ waiters # <<>> /\ Head(waiters) = t
    /\ waiters' = Tail(waiters)
    /\ IF writer = "None"
       THEN /\ reply' = [reply EXCEPT ![t] = "AttributeError"]
            /\ pc' = [pc EXCEPT ![t] = "done"]
            /\ command' = [command EXCEPT ![t] = NoFrame]
            /\ timeout' = [timeout EXCEPT ![t] = FALSE]
            /\ UNCHANGED << lock, wire >>
       ELSE /\ lock' = t
            /\ wire' = Append(wire, command[t])
            /\ pc' = [pc EXCEPT ![t] = "read"]
            /\ UNCHANGED << reply, command, timeout >>
    /\ UNCHANGED << clientVars, dataRaw, net, inbuf, eof, exc, dropped >>

\* (variant of Leaves) the lock stays with the caller that left.
Leaves_Held(t, how) ==
    /\ reply' = [reply EXCEPT ![t] = how]
    /\ pc' = [pc EXCEPT ![t] = "done"]
    /\ command' = [command EXCEPT ![t] = NoFrame]
    /\ timeout' = [timeout EXCEPT ![t] = FALSE]
    /\ dataRaw' = [dataRaw EXCEPT ![t] = <<>>]
    /\ UNCHANGED << lock, command_number, waiters >>

\* send_data is over: its locals are gone and the lock is released.
Leaves(t, how) ==
    /\ reply' = [reply EXCEPT ![t] = how]
    /\ pc' = [pc EXCEPT ![t] = "done"]
    /\ command' = [command EXCEPT ![t] = NoFrame]
    /\ timeout' = [timeout EXCEPT ![t] = FALSE]
    /\ dataRaw' = [dataRaw EXCEPT ![t] = <<>>]
    /\ lock' = NoTask
    /\ UNCHANGED << command_number, waiters >>

\* The except clause of send_data: CONNECTION_FAILED, handles cleared.
ConnectionFailed(t) ==
    /\ Leaves(t, "CONNECTION_FAILED")
    /\ writer' = "None"
    /\ reader' = "None"
    /\ dropped' = TRUE
    /\ NoStream
    /\ UNCHANGED << reboot, answered >>

\* An exception send_data does not catch leaves it through `async with`.
Raises(t, what) ==
    /\ Leaves(t, what)
    /\ UNCHANGED << writer, reader, reboot, streamVars, dropped, pending, answered >>

\* The frame the first reply in the stream answers.
AnsweredFrame == IF pending = << >> THEN NoAnswer.got ELSE Head(pending)

\* One reader.read(1024) of read_data and what follows it.
ReadData(t) ==
    /\ UNCHANGED << opVars, alertVars, codecVars, statVars, checksumVars, actor, delegate,
                    closeResult >>
    /\ pc[t] = "read"
    /\ IF reader = "None"
       THEN \* the handle was cleared under the loop: None.read
            Raises(t, "AttributeError")
       ELSE IF inbuf # <<>>
       THEN LET raw == dataRaw[t] \o inbuf IN
            /\ inbuf' = <<>>
            /\ IF Terminated(raw)
               THEN LET code == Parse(raw).code IN
                    /\ Leaves(t, code)
                    /\ reboot' = IF code = "ValueError" THEN reboot
                                 ELSE RebootAfter(code)
                    /\ answered' = [answered EXCEPT ![t] =
                                       [sent |-> command[t], got |-> AnsweredFrame]]
                    /\ pending' = SubSeq(pending, Terminators(raw) + 1, Len(pending))
               ELSE /\ dataRaw' = [dataRaw EXCEPT ![t] = raw]
                    /\ UNCHANGED << reply, reboot, pc, lock, command_number,
                                    waiters, command, timeout, pending, answered >>
            /\ UNCHANGED << writer, reader, wire, net, eof, exc, dropped >>
       ELSE IF exc
       THEN ConnectionFailed(t)
       ELSE \* at EOF read() returns b"" at once and the loop goes round
            /\ eof
            /\ UNCHANGED << clientVars, lockVars, taskVars, streamVars,
                            dropped, pending, answered >>

\* wait_for's timer runs out while read_data is suspended in read():
\* asyncio.TimeoutError leaves send_data, which catches ConnectionResetError
\* only.
Timeout(t) ==
    /\ UNCHANGED << opVars, alertVars, codecVars, statVars, checksumVars, hostVars >>
    /\ pc[t] = "read"
    /\ timeout[t]
    /\ inbuf = <<>> /\ ~eof /\ ~exc /\ reader # "None"
    /\ Raises(t, "TimeoutError")

\* The task awaiting send_data is cancelled (the 5 s wait_for around the
\* shutter move, the stop of the actor): CancelledError is raised where the
\* task is suspended.  Waiting for the lock, it leaves the queue; inside the
\* section, `async with` releases the lock.  The sends of those tasks are
\* numbered commands; the acknowledgement is sent by `mech ack` only.
Cancel(t) ==
    /\ UNCHANGED << opVars, alertVars, codecVars, statVars, checksumVars, hostVars >>
    /\ command[t].cmd # "!"
    /\ \/ /\ pc[t] = "lock"
          /\ waiters' = SelectSeq(waiters, LAMBDA x : x # t)
          /\ reply' = [reply EXCEPT ![t] = "CancelledError"]
          /\ pc' = [pc EXCEPT ![t] = "done"]
          /\ command' = [command EXCEPT ![t] = NoFrame]
          /\ timeout' = [timeout EXCEPT ![t] = FALSE]
          /\ UNCHANGED << clientVars, lock, dataRaw, streamVars, dropped >>
       \/ /\ pc[t] = "read"
          /\ Raises(t, "CancelledError")

\* The caller takes the outcome and is ready for another send.
Return(t) ==
    /\ UNCHANGED << opVars, alertVars, codecVars, statVars, checksumVars, actor, delegate,
                    closeResult >>
    /\ answered' = [answered EXCEPT ![t] = NoAnswer]
    /\ UNCHANGED pending
    /\ pc[t] = "done"
    /\ pc' = [pc EXCEPT ![t] = "idle"]
    /\ reply' = [reply EXCEPT ![t] = "none"]
    /\ UNCHANGED << clientVars, lockVars, command, timeout, dataRaw, streamVars,
                    dropped >>

TaskStep(t) ==
    SendData(t) \/ LockAcquired(t) \/ ReadData(t) \/ Timeout(t) \/ Return(t)

Next ==
    \/ Start
    \/ Close
    \/ MechReply
    \/ Deliver
    \/ PeerClose
    \/ ConnReset
    \/ \E t \in Tasks : SendData(t)
    \/ \E t \in Tasks : LockAcquired(t)
    \/ \E t \in Tasks : ReadData(t)
    \/ \E t \in Tasks : Timeout(t)
    \/ \E t \in Tasks : Cancel(t)
    \/ \E t \in Tasks : Return(t)

Spec == Init /\ [][Next]_vars

\* The event loop runs every caller that became runnable: a caller woken by
\* data, an exception or a timer is run whatever arrives afterwards.
FairSpec == Spec /\ \A t \in Tasks : SF_vars(TaskStep(t))

\* ---------------------------------------------------------- mech operations
\* The handlers of mech_commands.py, one step per send_data they await.  A
\* send is one step here: the lock makes the exchanges of concurrent callers
\* follow one another (Spec), and what the handler gets back is the reply.

\* Cap on the number of operations dispatched in a run.
MaxOps == 2

\* Cap on the number of numbered commands sent in a run of operations.
MaxSends == 13

\* Cap on the number of mechanisms named in one open or close.
MaxMechanisms == 2

\* STATS, in the order of the dictionary.
STATS ==
    << "time", "version", "environment", "vacuum", "motors", "motor-a",
       "motor-b", "motor-c", "orientation", "pneumatics", "specmech" >>

\* STATS[stat]: the report command of a stat.
StatCommand(stat) ==
    CASE stat = "time" -> "rt"
      [] stat = "version" -> "rV"
      [] stat = "environment" -> "re"
      [] stat = "vacuum" -> "rv"
      [] stat = "motors" -> "rd"
      [] stat = "motor-a" -> "ra"
      [] stat = "motor-b" -> "rb"
      [] stat = "motor-c" -> "rc"
      [] stat = "orientation" -> "ro"
      [] stat = "pneumatics" -> "rp"
      [] stat = "specmech" -> "rs"

\* The sentence tag the specMech reports for a report command.
ReportTag(cmd) ==
    CASE cmd = "rt" -> "TIM"
      [] cmd = "rV" -> "VER"
      [] cmd = "re" -> "ENV"
      [] cmd = "rv" -> "VAC"
      [] cmd \in {"rd", "ra", "rb", "rc"} -> "MTR"
      [] cmd = "ro" -> "ORI"
      [] cmd = "rp" -> "PNU"
      [] OTHER -> "S2"

\* The characters of a PNU field: open, closed.
PnuChars == {"o", "c"}

\* A PNU sentence: f[1], f[2], f[3] stand for fields 2, 4 and 6 of the
\* sentence (shutter, left, right).
PnuSentences ==
    { SentF("PNU", << x, y, z >>) : x \in PnuChars, y \in PnuChars, z \in PnuChars }

\* config["specMech"]["motors"]: encoder bounds and range of the collimator
\* motors, in the values of the deployed configuration's example.
minP_expected == 0
maxP_expected == 3000
min_microns == 100
max_microns == 2900

\* Default of --center-position.
center_position == 1500

\* Default of --tolerance.
tolerance == 2

\* numpy.allclose compares with atol + rtol * |final|, rtol being 1e-5:
\* differences and tolerances are counted in units of 1/Scale micron.
Scale == 100000

\* --tolerance arguments, in units of 1/Scale micron: the default and 0.99.
Tolerances == { tolerance * Scale, 99000 }

\* Width of the elements of the position arrays (numpy.int16).
IntBits == 16

\* POSITION arguments and the positions a motor at rest reports.
Positions == { -200, 200, 3000, 66000 }
CurrentPositions == { 500, 2800 }

\* The axes, in the order of the arrays.
Axes == << "a", "b", "c" >>

\* The position a move commands: center_position with --center.
Position(o) == IF o.center THEN center_position ELSE o.position[1]

\* The axes a move changes: the one of --motor, or all.
Moved(o, i) == o.motor = "None" \/ o.motor = Axes[i]

\* Where the move sends axis i, as an integer: POSITION for an absolute
\* move (and --center), the reported position plus POSITION otherwise.
Target(o, pos, i) ==
    IF ~Moved(o, i) THEN pos[i]
    ELSE IF o.absolute \/ o.center THEN Position(o)
    ELSE pos[i] + Position(o)

\* A MTR sentence: f is << position, speed, limit >>.
MtrSentences ==
    { SentF("MTR", << p, v, l >>) :
        p \in CurrentPositions, v \in {0, 5}, l \in {"N", "Y"} }

\* A DMM sentence: f is << minP, maxP >>.
DmmSentences ==
    { SentF("DMM", << minP_expected, maxP_expected >>),
      SentF("DMM", << minP_expected, maxP_expected + 1 >>) }

\* The sentences of a reply to `rd`: the motors are where they were
\* commanded to go, or where they were.
RdReplies ==
    IF mv.pc = "off" THEN { << Sent("MTR", TRUE), Sent("MTR", TRUE), Sent("MTR", TRUE) >> }
    ELSE { [i \in 1..3 |-> SentF("MTR", << Target(op, mv.pos, i) + d, 0, "N" >>)] :
             d \in {0, 1, 3} }
         \cup { [i \in 1..3 |-> SentF("MTR", << mv.pos[i], 0, "N" >>)] }

\* The sentences after the echo in a reply to a report command.
ReportAnswers(cmd) ==
    IF cmd = "rp" THEN { << x >> : x \in PnuSentences }
    ELSE IF cmd \in {"ra", "rb", "rc"} THEN { << x >> : x \in MtrSentences }
    ELSE IF cmd \in {"rA", "rB", "rC"}
    THEN { << Sent("MTR", TRUE), Sent("ENC", TRUE), Sent("PID", TRUE), x >> :
             x \in DmmSentences \cup { Sent("MTR", TRUE) } }
         \cup { << Sent("MTR", TRUE) >> }
    ELSE IF cmd = "rd" THEN RdReplies
    ELSE { << Sent(ReportTag(cmd), TRUE) >> }

\* What the specMech may answer to a command.  A rebooted controller answers
\* `!` to everything until it gets `!`; the acknowledgement is answered with
\* a bare prompt.
MechAnswers(cmd) ==
    IF mech_rebooted /\ cmd # "!"
    THEN { << Lx("bang") >> }
    ELSE IF cmd = "!"
    THEN { << Lx("gt") >>,
           << Lx("tn"), Lx("nl"), Lx("gt") >>,
           << Echo(TRUE), Lx("gt") >>,
           << Echo(FALSE), Lx("gt") >> }
         \cup (IF mech_rebooted THEN { << Lx("bang") >> } ELSE {})
    ELSE { << Echo(TRUE), Lx("gt") >>,
           << Echo(FALSE), Lx("gt") >>,
           << Echo(TRUE), Sent("ERR", TRUE), Lx("nl"), Lx("gt") >>,
           << Lx("junk"), Lx("gt") >> }
         \cup { << Echo(TRUE) >> \o x \o << Lx("nl"), Lx("gt") >> :
                  x \in ReportAnswers(cmd) }

ConnectionFailedReply == [code |-> "CONNECTION_FAILED", data |-> <<>>]
TimeoutErrorRaised == [code |-> "TimeoutError", data |-> <<>>]

\* The ways a send_data(cmd, timeout) ends: the decoded reply of an answer, a
\* connection failure, or asyncio.TimeoutError when a timeout was given.
SendResults(cmd, tmo) ==
    IF writer = "None"
    THEN { ConnectionFailedReply }
    ELSE { Parse(raw) : raw \in MechAnswers(cmd) }
         \cup { ConnectionFailedReply }
         \cup (IF tmo THEN { TimeoutErrorRaised } ELSE {})

\* The effect of a send_data(cmd) that ended as r on the client and the
\* specMech.
SentBy(cmd, r) ==
    /\ cmd = "!" \/ command_number < MaxSends
    /\ command_number' = IF cmd = "!" THEN command_number ELSE command_number + 1
    /\ IF r.code = "CONNECTION_FAILED"
       THEN writer' = "None" /\ reader' = "None" /\ UNCHANGED reboot
       ELSE IF r.code \in {"TimeoutError", "ValueError"}
       THEN UNCHANGED << writer, reader, reboot >>
       ELSE reboot' = RebootAfter(r.code) /\ UNCHANGED << writer, reader >>
    /\ mech_rebooted' = IF cmd = "!" /\ r.code = "REBOOT_ACKNOWLEDGED"
                        THEN FALSE ELSE mech_rebooted
    /\ rebootSeen' = IF r.code = "CONTROLLER_REBOOTED" THEN TRUE
                     ELSE IF cmd = "!" /\ r.code = "REBOOT_ACKNOWLEDGED" THEN FALSE
                     ELSE rebootSeen

\* A send_data(cmd) of the handler's own task: `written` lists the commands
\* that task put on the wire, in order, and lastCode is how its last
\* send_data ended.
Sent_(cmd, r) ==
    /\ SentBy(cmd, r)
    /\ lastCode' = r.code
    /\ written' = IF writer = "None" THEN written ELSE Append(written, cmd)

\* check_reply returns normally.
CheckReply(code) == code \in {"VALID", "REBOOT_ACKNOWLEDGED"}

\* (variant of Acknowledged) every reply check_reply accepts acknowledges.
Acknowledged_Accepted(code) == code \in {"VALID", "REBOOT_ACKNOWLEDGED"}

\* ack's own test of the reply code.
Acknowledged(code) == code = "REBOOT_ACKNOWLEDGED"

\* What the client-level variables are while operations run: no caller is
\* suspended inside send_data between two steps.
ClientQuiet ==
    UNCHANGED << lockVars, taskVars, streamVars, dropped, alertVars, codecVars, statVars, checksumVars, hostVars >>

\* The handler ends with a terminating message.
Ends(how) ==
    /\ term' = how
    /\ opc' = "done"
    /\ opsDone' = opsDone + 1

\* The kinds of operation and their arguments.
Operations ==
    { [kind |-> k] : k \in {"ack", "set_time", "reboot"} }
    \cup { [kind |-> "talk", data |-> "rp"] }
    \cup { [kind |-> "fan", mode |-> m] : m \in {"on", "off"} }
    \cup { [kind |-> "status", stat |-> st] : st \in {"all", "pneumatics", "motor-a"} }
    \cup { [kind |-> k, mechanisms |-> ms] :
             k \in {"open", "close"},
             ms \in { x \in SUBSET Mechanisms : x # {} /\ Cardinality(x) <= MaxMechanisms } }

\* The actor dispatches a mech command.
Dispatch ==
    /\ opc \in {"idle", "done"}
    /\ opsDone < MaxOps
    /\ \E o \in Operations : op' = o
    /\ opc' = "check"
    /\ term' = "none"
    /\ warnings' = 0
    /\ written' = <<>>
    /\ lastCode' = "none"
    /\ statIdx' = 0
    /\ status' = <<>>
    /\ pm' = [m \in Mechanisms |-> NoMove]
    /\ underReboot' = rebootSeen
    /\ UNCHANGED << clientVars, opsDone, mech_rebooted, rebootSeen >>
    /\ ClientQuiet
    /\ UNCHANGED mv

\* The specMech reboots.
MechReboots ==
    /\ ~mech_rebooted
    /\ mech_rebooted' = TRUE
    /\ UNCHANGED << clientVars, op, opc, term, warnings, written, lastCode,
                    statIdx, status, pm, opsDone, rebootSeen, underReboot >>
    /\ ClientQuiet
    /\ UNCHANGED mv

\* (variant of CheckController) a probe that timed out does not stop the
\* operation.
CheckController_Unguarded ==
    /\ opc = "check"
    /\ IF writer = "None"
       THEN /\ Ends("fail")
            /\ UNCHANGED << clientVars, written, lastCode, mech_rebooted,
                            rebootSeen >>
       ELSE \E r \in SendResults("rt", TRUE) :
               /\ Sent_("rt", r)
               /\ opc' = "body" /\ UNCHANGED << term, opsDone >>
    /\ UNCHANGED << op, warnings, statIdx, status, pm, underReboot >>
    /\ ClientQuiet
    /\ UNCHANGED mv

\* check_controller: fails the command when the client is not connected or
\* when the `rt` probe times out; the reply of the probe is not looked at.
CheckController ==
    /\ opc = "check"
    /\ IF writer = "None"
       THEN /\ Ends("fail")
            /\ UNCHANGED << clientVars, written, lastCode, mech_rebooted,
                            rebootSeen >>
       ELSE \E r \in SendResults("rt", TRUE) :
               /\ Sent_("rt", r)
               /\ IF r.code = "TimeoutError"
                  THEN Ends("fail")
                  ELSE opc' = "body" /\ UNCHANGED << term, opsDone >>
    /\ UNCHANGED << op, warnings, statIdx, status, pm, underReboot >>
    /\ ClientQuiet
    /\ UNCHANGED mv

\* ack: sends `!`; parse_reply fails the command on a reply check_reply
\* rejects, and so does a code other than REBOOT_ACKNOWLEDGED.
Ack ==
    /\ opc = "body" /\ op.kind = "ack"
    /\ \E r \in SendResults("!", FALSE) :
          /\ Sent_("!", r)
          /\ IF r.code = "ValueError" THEN Ends("exception")
             ELSE IF ~CheckReply(r.code) THEN Ends("fail")
             ELSE IF ~Acknowledged(r.code) THEN Ends("fail")
             ELSE Ends("finish")
    /\ UNCHANGED << op, warnings, statIdx, status, pm, underReboot >>
    /\ ClientQuiet
    /\ UNCHANGED mv

\* talk: DATA is sent as it is; the reply is not checked, and the pattern
\* that strips the telnet negotiation matches every raw reply.
Talk ==
    /\ opc = "body" /\ op.kind = "talk"
    /\ \E r \in SendResults(op.data, FALSE) :
          /\ Sent_(op.data, r)
          /\ IF r.code = "ValueError" THEN Ends("exception") ELSE Ends("finish")
    /\ UNCHANGED << op, warnings, statIdx, status, pm, underReboot >>
    /\ ClientQuiet
    /\ UNCHANGED mv

\* set_time, reboot and fan: one command, finished when parse_reply accepts
\* the reply.
SimpleCommand ==
    /\ opc = "body" /\ op.kind \in {"set_time", "reboot", "fan"}
    /\ LET cmd == IF op.kind = "set_time" THEN "st"
                  ELSE IF op.kind = "reboot" THEN "R"
                  ELSE IF op.mode = "on" THEN "sf+" ELSE "sf-"
       IN \E r \in SendResults(cmd, FALSE) :
             /\ Sent_(cmd, r)
             /\ IF r.code = "ValueError" THEN Ends("exception")
                ELSE IF ~CheckReply(r.code) THEN Ends("fail")
                ELSE Ends("finish")
    /\ UNCHANGED << op, warnings, statIdx, status, pm, underReboot >>
    /\ ClientQuiet
    /\ UNCHANGED mv

\* status: process_stats is all of STATS or the one stat given.
ProcessStats(o) == IF o.stat = "all" THEN STATS ELSE << o.stat >>

\* status: one get_stat of the loop.  A SpecMechError is reported with
\* command.error and the loop goes on with the placeholder values; after the
\* last stat the command finishes.
Status ==
    /\ opc = "body" /\ op.kind = "status"
    /\ LET stats == ProcessStats(op)
           i == statIdx + 1
           cmd == StatCommand(stats[i])
       IN \E r \in SendResults(cmd, FALSE) :
             /\ Sent_(cmd, r)
             /\ statIdx' = i
             /\ IF r.code = "ValueError" \/ (CheckReply(r.code) /\ r.data = <<>>)
                THEN \* parse raised, or reply.data[0] raised IndexError
                     Ends("exception")
                ELSE IF i = Len(stats)
                THEN Ends("finish")
                ELSE UNCHANGED << term, opc, opsDone >>
    /\ UNCHANGED << op, warnings, status, pm, underReboot >>
    /\ ClientQuiet
    /\ UNCHANGED mv

\* The 2x3 table of pneumatic_move's commands.
SpecCommand(mechanism, open) ==
    CASE mechanism = "left" -> IF open THEN "ol" ELSE "cl"
      [] mechanism = "right" -> IF open THEN "or" ELSE "cr"
      [] mechanism = "shutter" -> IF open THEN "os" ELSE "cs"

\* (variant of MechPosition) the shutter branch reads the field of the right
\* door.
MechPosition_RightTwice(mechanism, sentence) ==
    CASE mechanism = "shutter" -> sentence.f[3]
      [] mechanism = "left" -> sentence.f[2]
      [] mechanism = "right" -> sentence.f[3]

\* status.data[0][2], [4] or [6]: the field pneumatic_move reads for a
\* mechanism.
MechPosition(mechanism, sentence) ==
    CASE mechanism = "shutter" -> sentence.f[1]
      [] mechanism = "left" -> sentence.f[2]
      [] mechanism = "right" -> sentence.f[3]

\* destination[0]: the character a poll must show.
Destination(open) == IF open THEN "o" ELSE "c"

\* (variant of Reached) the position read is not compared.
Reached_Always(mech_position, open) == TRUE

\* pneumatic_move's test of a poll.
Reached(mech_position, open) == mech_position = Destination(open)

\* How a pneumatic_move coroutine has ended.
MoveEnded == {"True", "SpecMechError", "IndexError", "ValueError"}

\* openMech / closeMech: one pneumatic_move per mechanism, run by gather.
Spawn ==
    /\ opc = "body" /\ op.kind \in {"open", "close"}
    /\ pm' = [m \in Mechanisms |->
                IF m \in op.mechanisms THEN [NoMove EXCEPT !.pc = "send"]
                ELSE NoMove]
    /\ opc' = "gather"
    /\ UNCHANGED << clientVars, op, term, warnings, written, lastCode, statIdx, status,
                    opsDone, mech_rebooted, rebootSeen, underReboot >>
    /\ ClientQuiet
    /\ UNCHANGED mv

\* pneumatic_move: the move command and check_reply of its reply.
PneumaticMove(m) ==
    /\ opc = "gather" /\ pm[m].pc = "send"
    /\ LET cmd == SpecCommand(m, op.kind = "open")
       IN \E r \in SendResults(cmd, FALSE) :
             /\ SentBy(cmd, r)
             /\ pm' = [pm EXCEPT ![m].pc =
                          IF r.code = "ValueError" THEN "ValueError"
                          ELSE IF ~CheckReply(r.code) THEN "SpecMechError"
                          ELSE "poll",
                       ![m].ii = 1]
    /\ UNCHANGED << op, opc, term, warnings, written, lastCode, statIdx, status,
                    opsDone, underReboot >>
    /\ ClientQuiet
    /\ UNCHANGED mv

\* pneumatic_move: one iteration of `for ii in [1, 2]`: sleep, send `rp`,
\* check the reply, read the field of the mechanism.  Reached: info and
\* return True.  Not reached: a warning when ii is 1, otherwise the status
\* sub-command and SpecMechError.
PneumaticPoll(m) ==
    /\ opc = "gather" /\ pm[m].pc = "poll"
    /\ \E r \in SendResults("rp", FALSE) :
          /\ SentBy("rp", r)
          /\ IF r.code = "ValueError" \/ ~CheckReply(r.code) \/ r.data = <<>>
             THEN /\ pm' = [pm EXCEPT ![m].pc =
                               IF r.code = "ValueError" THEN "ValueError"
                               ELSE IF ~CheckReply(r.code) THEN "SpecMechError"
                               ELSE "IndexError",
                            ![m].polls = @ + 1]
                  /\ status' = << >>
                  /\ UNCHANGED warnings
             ELSE LET reached == Reached(MechPosition(m, r.data[1]), op.kind = "open")
                      miss1 == ~reached /\ pm[m].ii = 1
                  IN /\ pm' = [pm EXCEPT ![m].pc =
                                    IF reached THEN "True"
                                    ELSE IF miss1 THEN "poll" ELSE "report",
                               ![m].ii = IF miss1 THEN 2 ELSE @,
                               ![m].polls = @ + 1,
                               ![m].warned = IF miss1 THEN @ + 1 ELSE @]
                     /\ status' = r.data[1].f
                     /\ warnings' = IF miss1 THEN warnings + 1 ELSE warnings
    /\ UNCHANGED << op, opc, term, written, lastCode, statIdx, opsDone,
                    underReboot >>
    /\ ClientQuiet
    /\ UNCHANGED mv

\* pneumatic_move after the second miss: the sub-command `mech status
\* pneumatics` starts with check_controller.
PneumaticReport(m) ==
    /\ opc = "gather" /\ pm[m].pc = "report"
    /\ IF writer = "None"
       THEN /\ pm' = [pm EXCEPT ![m].pc = "SpecMechError"]
            /\ UNCHANGED << clientVars, mech_rebooted, rebootSeen >>
       ELSE \E r \in SendResults("rt", TRUE) :
               /\ SentBy("rt", r)
               /\ pm' = [pm EXCEPT ![m].pc =
                            IF r.code = "TimeoutError" THEN "SpecMechError"
                            ELSE "report2"]
    /\ UNCHANGED << op, opc, term, warnings, written, lastCode, statIdx, status,
                    opsDone, underReboot >>
    /\ ClientQuiet
    /\ UNCHANGED mv

\* The sub-command reads the pneumatics; then pneumatic_move raises
\* SpecMechError("Pneumatics did not reach the desired position.").
PneumaticRaise(m) ==
    /\ opc = "gather" /\ pm[m].pc = "report2"
    /\ \E r \in SendResults("rp", FALSE) :
          /\ SentBy("rp", r)
          /\ pm' = [pm EXCEPT ![m].pc = "SpecMechError"]
    /\ UNCHANGED << op, opc, term, warnings, written, lastCode, statIdx, status,
                    opsDone, underReboot >>
    /\ ClientQuiet
    /\ UNCHANGED mv

\* openMech / closeMech after gather(return_exceptions=True): the command
\* fails on a result that is a SpecMechError and finishes otherwise.
Gathered ==
    /\ opc = "gather"
    /\ \A m \in op.mechanisms : pm[m].pc \in MoveEnded
    /\ IF \E m \in op.mechanisms : pm[m].pc = "SpecMechError"
       THEN Ends("fail")
       ELSE Ends("finish")
    /\ pm' = [m \in Mechanisms |-> NoMove]
    /\ status' = <<>>
    /\ UNCHANGED << clientVars, op, warnings, written, lastCode, statIdx,
                    mech_rebooted, rebootSeen, underReboot >>
    /\ ClientQuiet
    /\ UNCHANGED mv

\* The client after the actor has started: connected, or not when start()
\* failed; no operation dispatched yet.
OpsInit ==
    /\ AlertsOff /\ HostIdle
    /\ CodecIdle
    /\ writer \in {"None", "open"}
    /\ reader = writer
    /\ reboot = FALSE
    /\ command_number = 0
    /\ lock = NoTask
    /\ waiters = <<>>
    /\ pc = [t \in Tasks |-> "idle"]
    /\ command = [t \in Tasks |-> NoFrame]
    /\ timeout = [t \in Tasks |-> FALSE]
    /\ dataRaw = [t \in Tasks |-> <<>>]
    /\ reply = [t \in Tasks |-> "none"]
    /\ wire = <<>> /\ net = <<>> /\ inbuf = <<>>
    /\ eof = FALSE /\ exc = FALSE
    /\ dropped = FALSE
    /\ OpIdle
    /\ mech_rebooted = FALSE

OpsNext ==
    \/ Dispatch
    \/ MechReboots
    \/ CheckController
    \/ Ack
    \/ Talk
    \/ SimpleCommand
    \/ Status
    \/ Spawn
    \/ \E m \in Mechanisms : PneumaticMove(m)
    \/ \E m \in Mechanisms : PneumaticPoll(m)
    \/ \E m \in Mechanisms : PneumaticReport(m)
    \/ \E m \in Mechanisms : PneumaticRaise(m)
    \/ Gathered

SpecOps == OpsInit /\ [][OpsNext]_vars

\* ------------------------------------------------------------------- move

\* The invocations of `mech move`: position is << >> when POSITION is absent.
MoveOperations ==
    { [ kind |-> "move", position |-> p, motor |-> m, absolute |-> a,
        center |-> c, wait |-> w, tolerance |-> t ] :
        p \in { << >> } \cup { << x >> : x \in Positions },
        m \in { "None", "a", "b", "c" },
        a \in BOOLEAN, c \in BOOLEAN, w \in BOOLEAN, t \in Tolerances }

\* Cap on the number of moves dispatched in a run.
MaxMoves == 1

\* The actor dispatches a move.
MoveDispatch ==
    /\ opc \in {"idle", "done"}
    /\ opsDone < MaxMoves
    /\ \E o \in MoveOperations : op' = o
    /\ opc' = "check"
    /\ term' = "none"
    /\ warnings' = 0
    /\ written' = <<>>
    /\ lastCode' = "none"
    /\ mv' = NoMv
    /\ underReboot' = rebootSeen
    /\ UNCHANGED << clientVars, statIdx, status, pm, opsDone, mech_rebooted,
                    rebootSeen >>
    /\ ClientQuiet

\* What a step of move leaves alone besides what it sends.
MoveFrame ==
    /\ UNCHANGED << op, statIdx, status, pm, underReboot >>
    /\ ClientQuiet

\* The handler goes on: no terminating message.
GoesOn == UNCHANGED << term, opc, opsDone >>

\* move: the two argument checks after check_controller.
MoveArgs ==
    /\ opc = "body" /\ op.kind = "move" /\ mv.pc = "off"
    /\ IF (op.absolute /\ op.motor = "None") \/ (~op.center /\ op.position = << >>)
       THEN Ends("fail") /\ mv' = [mv EXCEPT !.rejected = TRUE]
       ELSE GoesOn /\ mv' = [NoMv EXCEPT !.pc = "stat", !.ii = 1]
    /\ UNCHANGED << clientVars, warnings, written, lastCode, mech_rebooted,
                    rebootSeen >>
    /\ MoveFrame

\* An integer an int16 element holds as it is.
Fits(v) == v \in -(2 ^ (IntBits - 1)) .. (2 ^ (IntBits - 1)) - 1

\* The int16 element an integer is reduced to.
Wrap16(v) == ((v + 2 ^ (IntBits - 1)) % (2 ^ IntBits)) - 2 ^ (IntBits - 1)

\* move, first loop: get_stat("motor-<x>") of one axis.  A moving motor or a
\* triggered limit switch raises SpecMechError, which fails the command; the
\* reported position is stored in the int16 array.
MoveStat ==
    /\ opc = "body" /\ op.kind = "move" /\ mv.pc = "stat"
    /\ LET ii == mv.ii
           cmd == StatCommand(<< "motor-a", "motor-b", "motor-c" >>[ii])
       IN \E r \in SendResults(cmd, FALSE) :
             /\ Sent_(cmd, r)
             /\ IF r.code = "ValueError" \/ (CheckReply(r.code) /\ r.data = << >>)
                THEN Ends("exception") /\ UNCHANGED mv
                ELSE IF ~CheckReply(r.code)
                THEN Ends("fail") /\ UNCHANGED mv
                ELSE LET pos == r.data[1].f[1]
                         vel == r.data[1].f[2]
                         limit == r.data[1].f[3] = "Y"
                     IN IF vel # 0
                        THEN Ends("fail") /\ mv' = [mv EXCEPT !.moving = TRUE]
                        ELSE IF limit
                        THEN Ends("fail") /\ mv' = [mv EXCEPT !.limited = TRUE]
                        ELSE /\ GoesOn
                             /\ mv' = [mv EXCEPT !.pos[ii] = pos,
                                                 !.current[ii] = Wrap16(pos),
                                                 !.ii = IF ii = 3 THEN 1 ELSE ii + 1,
                                                 !.pc = IF ii = 3 THEN "dmm" ELSE "stat"]
    /\ UNCHANGED warnings
    /\ MoveFrame

\* (variant of MechCommands) the case of the motor letter is the other way
\* round: lower case for an absolute move.
MechCommands_Lower(o) ==
    IF o.motor = "None"
    THEN IF ~(o.absolute \/ o.center) THEN << "md" >> ELSE << "mA", "mB", "mC" >>
    ELSE IF o.absolute \/ o.center
    THEN << CASE o.motor = "a" -> "ma" [] o.motor = "b" -> "mb" [] o.motor = "c" -> "mc" >>
    ELSE << CASE o.motor = "a" -> "mA" [] o.motor = "b" -> "mB" [] o.motor = "c" -> "mC" >>

\* mech_commands: the commands a move writes, without the position.
MechCommands(o) ==
    IF o.motor = "None"
    THEN IF ~(o.absolute \/ o.center) THEN << "md" >> ELSE << "mA", "mB", "mC" >>
    ELSE IF o.absolute \/ o.center
    THEN << CASE o.motor = "a" -> "mA" [] o.motor = "b" -> "mB" [] o.motor = "c" -> "mC" >>
    ELSE << CASE o.motor = "a" -> "ma" [] o.motor = "b" -> "mb" [] o.motor = "c" -> "mc" >>

\* final: the int16 array after the absolute assignment or the in-place
\* addition of POSITION.
Final(o, current, i) ==
    IF ~Moved(o, i) THEN current[i]
    ELSE IF o.absolute \/ o.center THEN Wrap16(Position(o))
    ELSE Wrap16(current[i] + Position(o))

\* The range check of final.
InRange(final) ==
    \A i \in 1..3 : final[i] >= min_microns /\ final[i] <= max_microns

\* move, second loop: `rA`, `rB`, `rC`; reply.data[3] must be a DMM sentence
\* with the configured encoder bounds.  After the third axis the commands and
\* final are computed and final is checked against the range.  Storing a
\* POSITION that does not fit int16 wraps or raises OverflowError, as the
\* installed NumPy has it.
MoveDmm ==
    /\ opc = "body" /\ op.kind = "move" /\ mv.pc = "dmm"
    /\ LET ii == mv.ii
           cmd == << "rA", "rB", "rC" >>[ii]
       IN \E r \in SendResults(cmd, FALSE) :
             /\ Sent_(cmd, r)
             /\ IF r.code = "ValueError" \/ (CheckReply(r.code) /\ Len(r.data) < 4)
                THEN Ends("exception") /\ UNCHANGED mv
                ELSE IF ~CheckReply(r.code) \/ r.data[4].tag # "DMM"
                THEN Ends("fail") /\ UNCHANGED mv
                ELSE IF r.data[4].f # << minP_expected, maxP_expected >>
                THEN Ends("fail") /\ mv' = [mv EXCEPT !.bounds = FALSE]
                ELSE IF ii < 3
                THEN GoesOn /\ mv' = [mv EXCEPT !.ii = ii + 1]
                ELSE \E raises \in (IF Fits(Position(op)) THEN {FALSE} ELSE BOOLEAN) :
                        LET final == [i \in 1..3 |-> Final(op, mv.current, i)]
                        IN IF raises
                           THEN Ends("exception") /\ UNCHANGED mv
                           ELSE IF ~InRange(final)
                           THEN Ends("fail") /\ mv' = [mv EXCEPT !.final = final]
                           ELSE /\ GoesOn
                                /\ mv' = [mv EXCEPT !.final = final,
                                                    !.pc = "write", !.ii = 1]
    /\ UNCHANGED warnings
    /\ MoveFrame

\* (variant of MoveWrite) the reply of a move command is not checked.
MoveWrite_GoesOn ==
    /\ opc = "body" /\ op.kind = "move" /\ mv.pc = "write"
    /\ LET ii == mv.ii
           cmds == MechCommands(op)
           sent == IF writer = "None" THEN mv
                   ELSE [mv EXCEPT !.commands = Append(@, << cmds[ii], Position(op) >>)]
       IN \E r \in SendResults(cmds[ii], FALSE) :
             /\ Sent_(cmds[ii], r)
             /\ IF r.code = "ValueError"
                THEN Ends("exception") /\ mv' = sent
                ELSE IF ii < Len(cmds)
                THEN GoesOn /\ mv' = [sent EXCEPT !.ii = ii + 1]
                ELSE IF ~op.wait
                THEN Ends("finish") /\ mv' = sent
                ELSE GoesOn /\ mv' = [sent EXCEPT !.pc = "converge", !.ntry = 1]
    /\ UNCHANGED warnings
    /\ MoveFrame

\* move: one command of mech_commands, written with str(position) after its
\* name; parse_reply fails the command on a reply check_reply rejects.  After the last one the command finishes when
\* --no-wait was given.
MoveWrite ==
    /\ opc = "body" /\ op.kind = "move" /\ mv.pc = "write"
    /\ LET ii == mv.ii
           cmds == MechCommands(op)
           sent == IF writer = "None" THEN mv
                   ELSE [mv EXCEPT !.commands = Append(@, << cmds[ii], Position(op) >>)]
       IN \E r \in SendResults(cmds[ii], FALSE) :
             /\ Sent_(cmds[ii], r)
             /\ IF r.code = "ValueError"
                THEN Ends("exception") /\ mv' = sent
                ELSE IF ~CheckReply(r.code)
                THEN Ends("fail") /\ mv' = sent
                ELSE IF ii < Len(cmds)
                THEN GoesOn /\ mv' = [sent EXCEPT !.ii = ii + 1]
                ELSE IF ~op.wait
                THEN Ends("finish") /\ mv' = sent
                ELSE GoesOn /\ mv' = [sent EXCEPT !.pc = "converge", !.ntry = 1]
    /\ UNCHANGED warnings
    /\ MoveFrame

\* |x|.
Abs(x) == IF x >= 0 THEN x ELSE -x

\* numpy.allclose(new, final, atol): |new - final| <= atol + rtol * |final|
\* for every axis, atol in units of 1/Scale micron; the difference is a whole
\* number of microns.
AllClose(new, final, atol) ==
    \A i \in 1..3 : Abs(new[i] - final[i]) <= (atol + Abs(final[i])) \div Scale

\* move: one get_stat("motors") of `for ntry in [1, 2]`.  A SpecMechError of
\* get_stat is not caught here.
MoveConverge ==
    /\ opc = "body" /\ op.kind = "move" /\ mv.pc = "converge"
    /\ \E r \in SendResults("rd", FALSE) :
          /\ Sent_("rd", r)
          /\ IF r.code = "ValueError" \/ ~CheckReply(r.code) \/ Len(r.data) # 3
             THEN /\ Ends("exception")
                  /\ mv' = [mv EXCEPT !.new = << >>]
                  /\ UNCHANGED warnings
             ELSE LET new == [i \in 1..3 |-> r.data[i].f[1]]
                  IN IF AllClose(new, mv.final, op.tolerance)
                     THEN /\ Ends("finish")
                          /\ mv' = [mv EXCEPT !.new = new]
                          /\ UNCHANGED warnings
                     ELSE IF mv.ntry = 1
                     THEN /\ GoesOn
                          /\ warnings' = warnings + 2
                          /\ mv' = [mv EXCEPT !.ntry = 2, !.new = new]
                     ELSE /\ Ends("fail")
                          /\ warnings' = warnings + 1
                          /\ mv' = [mv EXCEPT !.new = new]
    /\ MoveFrame

MoveNext ==
    \/ MoveDispatch
    \/ CheckController
    \/ MoveArgs
    \/ MoveStat
    \/ MoveDmm
    \/ MoveWrite
    \/ MoveConverge

SpecMove == OpsInit /\ [][MoveNext]_vars

\* ----------------------------------------------------------------- alerts

\* What a status reading is to a temperature alert: temperature minus
\* (setpoint + max_increase).
Excesses == {-1, 0, 1}

\* _notify: false alerts are written only when they change the value or are
\* forced; the heartbeat disables it.
Notify(a, value, current, force) ==
    IF a \notin TemperatureAlerts THEN "none"
    ELSE IF value = current /\ value = FALSE /\ ~force THEN "none"
    ELSE IF value THEN "w" ELSE "i"

\* deque(maxlen=2).append
Append2(log, s) == IF Len(log) < 2 THEN Append(log, s) ELSE << log[2], s >>

\* check_alert: the two measurements of the rolling log are both v.
Agree_Newest(log, v) == Len(log) >= 1 /\ log[Len(log)] = v
Agree(log, v) == Len(log) = 2 /\ log[1] = v /\ log[2] = v

\* _alert_handler: where the task stands after check_alert returned or raised.
AfterCheck_Propagates(raised) == IF raised THEN "ended" ELSE "sleep"
AfterCheck(raised) == "sleep"

\* AlertsBot.__init__: every alert is constructed (reset() notifies false,
\* forced) and started.
AlertsBotInit ==
    /\ alerts_bot = "None"
    /\ alerts_bot' = "running"
    /\ alert' = [a \in Alerts |-> [NoAlert EXCEPT !.task = "sleep"]]
    /\ emitted' = [a \in Alerts |-> Notify(a, FALSE, FALSE, TRUE)]
    /\ UNCHANGED << clientVars, lockVars, taskVars, streamVars, dropped, opVars, codecVars, statVars, checksumVars, hostVars >>

AlertQuiet == UNCHANGED << alerts_bot, clientVars, lockVars, taskVars, streamVars, dropped, opVars, codecVars, statVars, checksumVars, hostVars >>

\* _alert_handler: the sleep is over; a temperature alert enters check_alert
\* and waits for the controller's status.
AlertHandlerWake(a) ==
    /\ a \in TemperatureAlerts
    /\ alert[a].task = "sleep"
    /\ alert' = [alert EXCEPT ![a].task = "check"]
    /\ emitted' = Silent
    /\ AlertQuiet

\* TemperatureAlert.check_alert with the status it was waiting for, then the
\* handler's except clause and its sleep.
CheckAlert(a) ==
    /\ a \in TemperatureAlerts
    /\ alert[a].task = "check"
    /\ \/ \E x \in Excesses :
            LET s == x > 0
                log == Append2(alert[a].values_log, s)
                new == IF Agree(log, TRUE) THEN TRUE
                       ELSE IF Agree(log, FALSE) THEN FALSE
                       ELSE alert[a].value
                code == IF Agree(log, TRUE) THEN Notify(a, TRUE, alert[a].value, FALSE)
                        ELSE IF Agree(log, FALSE) THEN Notify(a, FALSE, alert[a].value, FALSE)
                        ELSE "none"
            IN /\ alert' = [alert EXCEPT ![a] = [task |-> AfterCheck(FALSE),
                                                 value |-> new,
                                                 values_log |-> log,
                                                 sample |-> IF s THEN "True" ELSE "False"]]
               /\ emitted' = [Silent EXCEPT ![a] = code]
       \/ /\ alert' = [alert EXCEPT ![a].task = AfterCheck(TRUE), ![a].sample = "raise"]
          /\ emitted' = [Silent EXCEPT ![a] = "w:error"]
    /\ AlertQuiet

\* YaoHeartbeat: the sleep is over, check_alert writes alive_at and the task
\* sleeps again.
Heartbeat(a) ==
    /\ a \notin TemperatureAlerts
    /\ alert[a].task = "sleep"
    /\ alert' = [alert EXCEPT ![a].task = AfterCheck(FALSE), ![a].sample = "alive"]
    /\ emitted' = [Silent EXCEPT ![a] = "d"]
    /\ AlertQuiet

\* AlertsBot.stop: every alert's task is asked to cancel and forgotten.
AlertsBotStop ==
    /\ alerts_bot = "running"
    /\ alerts_bot' = "stopped"
    /\ alert' = [a \in Alerts |->
                   [alert[a] EXCEPT !.task = IF @ \in {"sleep", "check"} THEN "cancelled" ELSE @]]
    /\ emitted' = Silent
    /\ UNCHANGED << clientVars, lockVars, taskVars, streamVars, dropped, opVars, codecVars, statVars, checksumVars, hostVars >>

\* The cancelled task is resumed with CancelledError at its await, which
\* `except Exception` does not catch.
Cancelled(a) ==
    /\ alert[a].task = "cancelled"
    /\ alert' = [alert EXCEPT ![a].task = "ended"]
    /\ emitted' = Silent
    /\ AlertQuiet

AlertsNext ==
    \/ AlertsBotInit
    \/ \E a \in Alerts : AlertHandlerWake(a)
    \/ \E a \in Alerts : CheckAlert(a)
    \/ \E a \in Alerts : Heartbeat(a)
    \/ AlertsBotStop
    \/ \E a \in Alerts : Cancelled(a)

SpecAlerts == Init /\ [][AlertsNext]_vars

\* The event loop resumes every task that is ready and fires every timer.
FairAlerts ==
    /\ SpecAlerts
    /\ \A a \in Alerts : WF_vars(AlertHandlerWake(a) \/ CheckAlert(a) \/ Heartbeat(a) \/ Cancelled(a))

\* ----------------------------------------------------- framing and echo

MaxFrameNumber == 12

\* The commands framed, as bytes: a report, the probe, a relative move and
\* the acknowledgement.
FramedCommands ==
    { << "r", "p" >>, << "r", "t" >>, << "m", "r", "a", "5", "0" >>, << "!" >> }

DigitChars == << "0", "1", "2", "3", "4", "5", "6", "7", "8", "9" >>
IsDigit(ch) == \E d \in 1..10 : DigitChars[d] = ch

RECURSIVE Str(_)
\* str(self.command_number)
Str(n) ==
    IF n < 10 THEN << DigitChars[n + 1] >>
    ELSE Str(n \div 10) \o << DigitChars[(n % 10) + 1] >>

\* int() of one captured digit
IntOf(ch) == (CHOOSE d \in 1..10 : DigitChars[d] = ch) - 1

\* send_data: the counter after the command was framed.
Numbered(cmd, number) == IF cmd = << "!" >> THEN number ELSE number + 1

\* send_data: commandFinal.
CommandFinal(cmd, number) ==
    IF cmd = << "!" >> THEN cmd \o << "\r" >>
    ELSE cmd \o << ";" >> \o Str(number) \o << "\r" >>

\* The echo of the specMech: `$S2CMD,` and the frame without its \r, then `*`
\* and the two hexadecimal digits of the checksum of these bytes.
EchoOf(f) ==
    << "$", "S", "2", "C", "M", "D", "," >> \o SubSeq(f, 1, Len(f) - 1)
        \o << "*", "5", "C" >>

\* Index of the last byte of the run of digits that starts after position i
\* (i when there is none).
DigitsEnd(e, i) ==
    CHOOSE j \in i..Len(e) :
        /\ \A k \in (i + 1)..j : IsDigit(e[k])
        /\ j = Len(e) \/ ~IsDigit(e[j + 1])

\* re.match(rb".+?;([0-9])+\*", cmd): the positions of a `;` that is not the
\* first byte and is followed by digits and `*`.
IdMatches(e) ==
    { i \in 2..Len(e) :
        /\ e[i] = ";"
        /\ DigitsEnd(e, i) > i
        /\ DigitsEnd(e, i) < Len(e)
        /\ e[DigitsEnd(e, i) + 1] = "*" }

\* parse: command_id, 0 as set by __init__ when the expression does not
\* match; the group is inside the repetition and keeps its last iteration.
CommandId(e) ==
    IF IdMatches(e) = {} THEN 0
    ELSE LET i == CHOOSE k \in IdMatches(e) : \A m \in IdMatches(e) : k <= m
         IN IntOf(e[DigitsEnd(e, i)])

CodecQuiet ==
    UNCHANGED << clientVars, lockVars, taskVars, streamVars, dropped, opVars, alertVars,
                 statVars, checksumVars, hostVars >>

\* A client at any point of its counter.
FramerInit ==
    /\ OpIdle /\ AlertsOff /\ HostIdle /\ CodecIdle /\ Unconnected
    /\ mech_rebooted = FALSE
    /\ command_number \in 0..(MaxFrameNumber - 1)

\* send_data builds the frame of a command.
FramerSend ==
    /\ frame = << >>
    /\ \E cmd \in FramedCommands :
          /\ command_number' = Numbered(cmd, command_number)
          /\ frame' = CommandFinal(cmd, command_number')
    /\ UNCHANGED << writer, reader, reboot, lockVars, taskVars, streamVars,
                    dropped, opVars, alertVars, echo, mechReply, rawReply, checked,
                    statVars, checksumVars, hostVars >>

\* The specMech echoes the command it read.
FramerEcho ==
    /\ frame # << >> /\ frame # << "!", "\r" >>
    /\ echo = << >>
    /\ echo' = EchoOf(frame)
    /\ UNCHANGED << frame, mechReply, rawReply, checked >>
    /\ CodecQuiet

\* SpecMechReply.parse reads the command id from the echo.
FramerDecode ==
    /\ echo # << >>
    /\ mechReply = NoReply
    /\ mechReply' = [code |-> "VALID", data |-> << >>, command_id |-> CommandId(echo)]
    /\ UNCHANGED << frame, echo, rawReply, checked >>
    /\ CodecQuiet

FramerNext == FramerSend \/ FramerEcho \/ FramerDecode

SpecFramer == FramerInit /\ [][FramerNext]_vars

\* ------------------------------------------------------------ check_reply

\* Sentences a reply may hold: a report, with a good or a bad checksum, and
\* error sentences whose data pack has one, two or three fields.
CheckedSentences ==
    { SentF("PNU", << "o" >>), Sent("PNU", FALSE),
      SentF("ERR", << "42" >>),
      SentF("ERR", << "42", "Bad arg" >>),
      SentF("ERR", << "42", "Bad arg", "mra" >>) }

\* Raw replies that end read_data's loop; the last is a complete reply and the
\* `!` of a specMech that rebooted after it, read in one chunk.
CheckedRaws ==
    { pre \o body \o end :
        pre \in { << >>, << Lx("tn") >> },
        body \in { << >>, << Echo(TRUE) >>, << Echo(FALSE) >>, << Lx("junk") >> }
                 \cup { << Echo(TRUE), x >> : x \in CheckedSentences }
                 \cup { << Echo(TRUE), x, y >> : x \in CheckedSentences, y \in CheckedSentences },
        end \in { << Lx("gt") >>, << Lx("nl"), Lx("gt") >>, << Lx("bang") >>,
                  << Lx("gt"), Lx("bang") >> } }

\* check_reply: "return" when it returns, else the exception it raises.
check_reply(r) ==
    LET errs == { i \in DOMAIN r.data : r.data[i].tag = "ERR" }
        first == CHOOSE i \in errs : \A j \in errs : i <= j
    IN IF r.code = "ERR_IN_REPLY" /\ errs # {}
       THEN IF Len(r.data[first].f) = 2 THEN "SpecMechError" ELSE "ValueError"
       ELSE IF r.code = "CONTROLLER_REBOOTED" THEN "SpecMechError"
       ELSE IF r.code = "CONNECTION_FAILED" THEN "SpecMechError"
       ELSE IF r.code # "VALID" /\ r.code # "REBOOT_ACKNOWLEDGED" THEN "SpecMechError"
       ELSE "return"

\* A reply was read, or the connection failed, and nothing was decoded yet.
CheckInit ==
    /\ OpIdle /\ AlertsOff /\ HostIdle /\ Unconnected
    /\ mech_rebooted = FALSE
    /\ command_number = 0
    /\ frame = << >> /\ echo = << >> /\ mechReply = NoReply /\ checked = "none"
    /\ statArg = "None" /\ statSent = << >> /\ result = NoResult
    /\ message = << >> /\ verdict = NoVerdict
    /\ rawReply \in CheckedRaws

\* read_data: SpecMechReply(dataRaw).
CheckDecode ==
    /\ mechReply = NoReply
    /\ Parse(rawReply).code \in ReplyCode
    /\ mechReply' = Parse(rawReply)
    /\ UNCHANGED << command_number, frame, echo, rawReply, checked >>
    /\ CodecQuiet

\* send_data's except clause: the reply of a failed connection.
CheckConnectionFailed ==
    /\ mechReply = NoReply
    /\ mechReply' = ConnectionFailedReply
    /\ UNCHANGED << command_number, frame, echo, rawReply, checked >>
    /\ CodecQuiet

\* The caller validates the reply.
CheckReplyCall ==
    /\ mechReply # NoReply
    /\ checked = "none"
    /\ checked' = check_reply(mechReply)
    /\ UNCHANGED << command_number, frame, echo, mechReply, rawReply >>
    /\ CodecQuiet

CheckNext == CheckDecode \/ CheckConnectionFailed \/ CheckReplyCall

SpecCheckReply == CheckInit /\ [][CheckNext]_vars

\* ---------------------------------------------------------------- get_stat

\* The arguments get_stat is called with: the keys of STATS, the key that is
\* commented out of the dictionary, and a name that was never in it.
StatArgs == { STATS[i] : i \in DOMAIN STATS } \cup { "nitrogen", "shutter" }

\* stat in STATS
InStats(st) == \E i \in DOMAIN STATS : STATS[i] = st

\* The characters of a pneumatics field and of the air pressure field.
PnuFields == { "c", "o", "t", "x" }
PressureFields == { "0", "1" }

\* Sentences as get_stat reads them: f[k] is values[k], the k-th field after
\* the tag.
StatPnuSentences ==
    { SentF("PNU", << "", s, "", l, "", r, "", p >>) :
        s \in PnuFields, l \in PnuFields, r \in PnuFields, p \in PressureFields }

\* One sentence of every other tag get_stat knows, and two of a tag it does
\* not know; only values[2] of the latter is read.
StatOtherSentences ==
    { SentF(t, << "", "1" >>) :
        t \in { "TIM", "VER", "ENV", "VAC", "ORI", "MTR", "LN2", "S2", "XYZ" } }
    \cup { SentF("XYZ", << "", "on" >>) }

\* What send_data returns to get_stat: a reply with one sentence, an echo
\* alone, the reboot marker, a failed connection.
StatReplies ==
    { Parse(<< Echo(TRUE), x, Lx("nl"), Lx("gt") >>) :
        x \in StatPnuSentences \cup StatOtherSentences }
    \cup { Parse(<< Echo(TRUE), Lx("gt") >>), Parse(<< Lx("bang") >>),
           ConnectionFailedReply }

\* get_stat: the readable word of a pneumatics field.
PnuState_Known(c) ==
    IF c = "o" THEN "open" ELSE IF c = "t" THEN "transiting" ELSE "closed"
PnuState(c) ==
    IF c = "c" THEN "closed" ELSE IF c = "o" THEN "open" ELSE "transiting"

\* get_stat: the readable word of the air pressure field.
AirPressure(c) == IF c = "0" THEN "off" ELSE "on"

Returned(branch, value) == [raised |-> "none", branch |-> branch, value |-> value]
Raised(e) == [raised |-> e, branch |-> "none", value |-> << >>]

\* get_stat after send_data returned r: check_reply, then the branch chosen by
\* the tag of the first sentence.  The fields of the other kinds are not
\* decoded here.
get_stat(st, r) ==
    IF check_reply(r) # "return" THEN Raised(check_reply(r))
    ELSE IF r.data = << >> THEN Raised("IndexError")
    ELSE LET values == r.data[1] IN
         IF values.tag = "MTR"
         THEN IF st \in { "motor-a", "motor-b", "motor-c" } THEN Returned("motor", << >>)
              ELSE IF st = "motors" THEN Returned("motors", << >>)
              ELSE Raised("SpecMechError")
         ELSE IF values.tag = "ENV" THEN Returned("environment", << >>)
         ELSE IF values.tag = "ORI" THEN Returned("orientation", << >>)
         ELSE IF values.tag = "PNU"
         THEN Returned("pneumatics",
                       << PnuState(values.f[2]), PnuState(values.f[4]),
                          PnuState(values.f[6]), AirPressure(values.f[8]) >>)
         ELSE IF values.tag = "TIM" THEN Returned("time", << >>)
         ELSE IF values.tag = "VER" THEN Returned("version", << >>)
         ELSE IF values.tag = "VAC" THEN Returned("vacuum", << >>)
         ELSE IF values.tag = "LN2" THEN Returned("nitrogen", << >>)
         ELSE \* `elif "specmech":` is always true; int(values[2])
              IF values.f[2] \in { "0", "1" }
              THEN Returned("specmech", << IF values.f[2] = "1" THEN "on" ELSE "off" >>)
              ELSE Raised("ValueError")

\* A connected client that has sent nothing.
StatInit ==
    /\ OpIdle /\ AlertsOff /\ HostIdle /\ CodecIdle
    /\ mech_rebooted = FALSE
    /\ writer = "open" /\ reader = "open"
    /\ reboot = FALSE
    /\ command_number = 0
    /\ lock = NoTask
    /\ waiters = <<>>
    /\ pc = [t \in Tasks |-> "idle"]
    /\ command = [t \in Tasks |-> NoFrame]
    /\ timeout = [t \in Tasks |-> FALSE]
    /\ dataRaw = [t \in Tasks |-> <<>>]
    /\ reply = [t \in Tasks |-> "none"]
    /\ wire = <<>> /\ net = <<>> /\ inbuf = <<>>
    /\ eof = FALSE /\ exc = FALSE /\ dropped = FALSE

StatQuiet ==
    UNCHANGED << lockVars, taskVars, streamVars, dropped, opVars, alertVars,
                 frame, echo, rawReply, checked, checksumVars, hostVars >>

\* get_stat(stat) up to the return of send_data: a stat outside STATS raises
\* before anything is sent.
GetStatCall ==
    /\ statArg = "None"
    /\ \E st \in StatArgs :
          /\ statArg' = st
          /\ IF InStats(st)
             THEN /\ statSent' = << StatCommand(st) >>
                  /\ command_number' = command_number + 1
                  /\ \E r \in StatReplies :
                        /\ mechReply' = r
                        /\ reboot' = IF r.code = "CONNECTION_FAILED" THEN reboot
                                     ELSE r.code = "CONTROLLER_REBOOTED"
                        /\ writer' = IF r.code = "CONNECTION_FAILED" THEN "None" ELSE writer
                        /\ reader' = writer'
                  /\ result' = result
             ELSE /\ result' = Raised("SpecMechError")
                  /\ UNCHANGED << statSent, mechReply, clientVars >>
    /\ StatQuiet

\* get_stat from check_reply to its return.
GetStatReturn ==
    /\ statArg # "None"
    /\ result = NoResult
    /\ result' = get_stat(statArg, mechReply)
    /\ UNCHANGED << statArg, statSent, mechReply, clientVars >>
    /\ StatQuiet

StatNext == GetStatCall \/ GetStatReturn

SpecStat == StatInit /\ [][StatNext]_vars

\* --------------------------------------------------------------- checksum

MaxBodyLen == 2

\* The bytes sentence bodies are made of here, with their values.
BodyChars == { "A", "K", "P", ",", "1" }
Ord(ch) ==
    CASE ch = "A" -> 65
      [] ch = "K" -> 75
      [] ch = "P" -> 80
      [] ch = "," -> 44
      [] ch = "1" -> 49
      [] ch = "$" -> 36
      [] ch = "*" -> 42

Bodies == UNION { [1..n -> BodyChars] : n \in 1..MaxBodyLen }

\* The checksum fields received: right and wrong values, in both letter
\* cases, with and without the leading zero.
Checksums ==
    { << "0", "A" >>, << "0", "a" >>, << "A" >>, << "a" >>, << "4", "B" >>,
      << "4", "b" >>, << "1", "1" >>, << "1", "B" >>, << "0", "0" >>, << "0" >>,
      << "2", "C" >>, << "4", "1" >> }

UpperHex == << "0", "1", "2", "3", "4", "5", "6", "7", "8", "9",
               "A", "B", "C", "D", "E", "F" >>
LowerHex == << "0", "1", "2", "3", "4", "5", "6", "7", "8", "9",
               "a", "b", "c", "d", "e", "f" >>

\* [0-9A-Fa-f] and [0-9A-Za-z]
IsHexDigit(ch) == \E d \in 1..16 : UpperHex[d] = ch \/ LowerHex[d] = ch
IsAlnum(ch) == IsHexDigit(ch) \/ ch \in { "K", "P" }

RECURSIVE Xor(_, _)
\* a ^ b
Xor(a, b) ==
    IF a = 0 THEN b
    ELSE IF b = 0 THEN a
    ELSE 2 * Xor(a \div 2, b \div 2) + ((a + b) % 2)

RECURSIVE XorAll(_)
\* the loop `for b in message: checksum ^= b`
XorAll(bytes) ==
    IF bytes = << >> THEN 0 ELSE Xor(Ord(Head(bytes)), XorAll(Tail(bytes)))

\* (variant of Format02X) `%X`, without the zero padding.
Format02X_NoPad(n) ==
    IF n < 16 THEN << UpperHex[n + 1] >>
    ELSE << UpperHex[(n \div 16) + 1], UpperHex[(n % 16) + 1] >>

\* f"{checksum:02X}"
Format02X(n) == << UpperHex[(n \div 16) + 1], UpperHex[(n % 16) + 1] >>

\* calculate_checksum: an optional leading `$` and a trailing `*` with the
\* letters and digits after it are left out of the XOR.  (A message holding a
\* line feed does not match and raises ValueError; there is none here.)
calculate_checksum(msg) ==
    LET m == IF msg # << >> /\ Head(msg) = "$" THEN Tail(msg) ELSE msg
        cuts == { i \in 1..Len(m) :
                    m[i] = "*" /\ \A k \in (i + 1)..Len(m) : IsAlnum(m[k]) }
        n == IF cuts = {} THEN Len(m)
             ELSE (CHOOSE i \in cuts : \A j \in cuts : i <= j) - 1
    IN Format02X(XorAll(SubSeq(m, 1, n)))

\* check_checksum: the message is split at the first `*` that is not its first
\* byte and has only hexadecimal digits after it; the digits are compared, as
\* a string, with the checksum calculated for the part before.
check_checksum(msg) ==
    LET cuts == { i \in 2..(Len(msg) - 1) :
                    msg[i] = "*" /\ \A k \in (i + 1)..Len(msg) : IsHexDigit(msg[k]) }
    IN IF cuts = {} THEN [raised |-> "ValueError", calculated |-> << >>, ok |-> FALSE]
       ELSE LET i == CHOOSE k \in cuts : \A j \in cuts : k <= j
                calculated == calculate_checksum(SubSeq(msg, 1, i - 1))
            IN [raised |-> "none", calculated |-> calculated,
                ok |-> SubSeq(msg, i + 1, Len(msg)) = calculated]

\* A sentence, with or without its `$`, is about to be verified.
ChecksumInit ==
    /\ OpIdle /\ AlertsOff /\ HostIdle /\ Unconnected
    /\ mech_rebooted = FALSE
    /\ command_number = 0
    /\ frame = << >> /\ echo = << >> /\ mechReply = NoReply
    /\ rawReply = << >> /\ checked = "none"
    /\ statArg = "None" /\ statSent = << >> /\ result = NoResult
    /\ verdict = NoVerdict
    /\ \E pre \in { << >>, << "$" >> }, body \in Bodies, chk \in Checksums :
          message = pre \o body \o << "*" >> \o chk

\* parse verifies the sentence.
CheckChecksum ==
    /\ verdict = NoVerdict
    /\ verdict' = check_checksum(message)
    /\ UNCHANGED << clientVars, lockVars, taskVars, streamVars, dropped, opVars,
                    alertVars, codecVars, statVars, message, hostVars >>

ChecksumNext == CheckChecksum

SpecChecksum == ChecksumInit /\ [][ChecksumNext]_vars

\* -------------------------------------------------------------- time sync

\* Cap on the set-time commands of a run.
MaxSetTimes == 3

\* datetime.now(timezone.utc): seconds and microseconds.
Nows == [ sec : {"12:00:01", "12:00:02", "12:00:03"}, micro : {0, 250000} ]

\* The microseconds as isoformat writes them.
MicroDigits(micro) == IF micro = 250000 THEN "250000" ELSE "000000"

\* now.isoformat(): the date and time to the second, then `.` and the
\* microseconds unless they are zero, then the UTC offset.
IsoFormat(now) ==
    IF now.micro = 0 THEN << now.sec, "+00:00" >>
    ELSE << now.sec, ".", MicroDigits(now.micro), "+00:00" >>

\* str.split(".")[0]: what precedes the first `.`, everything without one.
BeforeDot(str) ==
    LET dots == { i \in DOMAIN str : str[i] = "." }
    IN IF dots = {} THEN str
       ELSE SubSeq(str, 1, (CHOOSE i \in dots : \A j \in dots : i <= j) - 1)

\* (variant of TaskCreated) the method is called: the task is created for a
\* connected client only.
TaskCreated_Called(connected) == connected

\* `if self.spec_mech.is_connected:` tests the bound method, which is true
\* of every client.
TaskCreated(connected) == TRUE

\* YaoActor.start: spec_mech.start() connects or fails with a warning, the
\* time-sync task is created, and the alerts bot.
ActorStart ==
    /\ actor.state = "created"
    /\ \E connected \in BOOLEAN :
          /\ writer' = IF connected THEN "open" ELSE "None"
          /\ reader' = writer'
          /\ actor' = [actor EXCEPT !.state = "running", !.connected = connected,
                                    !.task = IF TaskCreated(connected) THEN "send"
                                             ELSE "None"]
    /\ alerts_bot' = IF alerts_bot = "None" THEN "running" ELSE alerts_bot
    /\ UNCHANGED << reboot, command_number, lockVars, taskVars, streamVars, dropped,
                    opVars, alert, emitted, codecVars, statVars, checksumVars, closeResult,
                    pending, answered, delegate >>

\* _set_mech_time: one set-time command with the time string.  The command
\* fails at check_controller when the client is not connected; otherwise it
\* fails or not with the exchange.  60 s of sleep follow a failure, 86400 s
\* a success.
SetMechTime ==
    /\ actor.state = "running" /\ actor.task = "send"
    /\ actor.issued < MaxSetTimes
    /\ \E now \in Nows, did_fail \in (IF writer = "None" THEN {TRUE} ELSE BOOLEAN) :
          actor' = [actor EXCEPT !.issued = @ + 1,
                                 !.last = BeforeDot(IsoFormat(now)),
                                 !.failed = did_fail,
                                 !.slept = IF did_fail THEN 60 ELSE 86400,
                                 !.task = "sleep"]
    /\ UNCHANGED << clientVars, lockVars, taskVars, streamVars, dropped, opVars,
                    alertVars, codecVars, statVars, checksumVars, closeResult,
                    pending, answered, delegate >>

\* The sleep of the time-sync task is over.
SetMechTimeWake ==
    /\ actor.state = "running" /\ actor.task = "sleep"
    /\ actor' = [actor EXCEPT !.task = "send"]
    /\ UNCHANGED << clientVars, lockVars, taskVars, streamVars, dropped, opVars,
                    alertVars, codecVars, statVars, checksumVars, closeResult,
                    pending, answered, delegate >>

\* YaoActor.stop: the time-sync task is cancelled, the alerts bot stopped
\* and the writer closed; the handles stay set.
ActorStop ==
    /\ actor.state = "running"
    /\ actor' = [actor EXCEPT !.state = "stopped",
                              !.task = IF @ = "None" THEN "None" ELSE "cancelled"]
    /\ alerts_bot' = IF alerts_bot = "None" THEN "None" ELSE "stopped"
    /\ UNCHANGED << clientVars, lockVars, taskVars, streamVars, dropped, opVars,
                    alert, emitted, codecVars, statVars, checksumVars, closeResult,
                    pending, answered, delegate >>

TimeSyncInit ==
    /\ OpIdle /\ AlertsOff /\ HostIdle /\ CodecIdle /\ Unconnected
    /\ mech_rebooted = FALSE
    /\ command_number = 0

TimeSyncNext ==
    \/ ActorStart
    \/ SetMechTime
    \/ SetMechTimeWake
    \/ ActorStop

SpecTimeSync == TimeSyncInit /\ [][TimeSyncNext]_vars

\* ---------------------------------------------------------- the delegate

MaxShutterMoves == 3

\* Flavours and exposure times of an exposure.
Flavours == {"object", "bias", "dark"}
ExposureTimes == {0, 15}

\* The ways the awaited pneumatic_move("shutter") ends under the 5 s
\* wait_for: as pneumatic_move itself ends, or with TimeoutError.
ShutterEnded == MoveEnded \cup {"TimeoutError"}

\* shutter sends no command for these exposures.
NoShutter(d) == d.exposure_time = 0 \/ d.flavour \in {"bias", "dark"}

\* The except clauses of shutter: what sets shutter_failed.
ShutterCaught == {"TimeoutError", "SpecMechError"}

ShutterReturns_FailsBoth(failed, open) == ~failed

\* What shutter returns after the try statement.
ShutterReturns(failed, open) ==
    IF failed THEN (IF open THEN FALSE ELSE TRUE) ELSE TRUE

BoolName(b) == IF b THEN "True" ELSE "False"

\* The exposure data of a new exposure are set.
DelegateExpose ==
    /\ \E f \in Flavours, e \in ExposureTimes :
          delegate' = [delegate EXCEPT !.flavour = f, !.exposure_time = e,
                                       !.call = "expose", !.open = FALSE,
                                       !.outcome = "none", !.returned = "none"]
    /\ UNCHANGED << clientVars, lockVars, taskVars, streamVars, dropped, opVars,
                    alertVars, codecVars, statVars, checksumVars,
                    actor, closeResult, pending, answered >>

\* YaoDelegate.reset.
DelegateReset ==
    /\ delegate' = [delegate EXCEPT !.shutter_failed = FALSE,
                                    !.call = "reset", !.open = FALSE,
                                    !.outcome = "none", !.returned = "none"]
    /\ UNCHANGED << clientVars, lockVars, taskVars, streamVars, dropped, opVars,
                    alertVars, codecVars, statVars, checksumVars,
                    actor, closeResult, pending, answered >>

\* YaoDelegate.shutter(open).  Exceptions of pneumatic_move other than the
\* two caught leave shutter as they are.
Shutter(open) ==
    /\ delegate.flavour # "None"
    /\ IF NoShutter(delegate)
       THEN delegate' = [delegate EXCEPT !.call = "shutter", !.open = open,
                                         !.outcome = "none",
                                         !.returned = "True"]
       ELSE /\ delegate.moves < MaxShutterMoves
            /\ \E ended \in ShutterEnded :
                  LET failed == delegate.shutter_failed \/ ended \in ShutterCaught
                  IN  delegate' =
                         [delegate EXCEPT
                             !.call = "shutter", !.open = open,
                             !.outcome = ended,
                             !.moves = @ + 1,
                             !.shutter_failed =
                                 IF ended \in ShutterCaught \cup {"True"}
                                 THEN failed ELSE @,
                             !.returned =
                                 IF ended \in ShutterCaught \cup {"True"}
                                 THEN BoolName(ShutterReturns(failed, open))
                                 ELSE ended]
    /\ UNCHANGED << clientVars, lockVars, taskVars, streamVars, dropped, opVars,
                    alertVars, codecVars, statVars, checksumVars,
                    actor, closeResult, pending, answered >>

\* YaoDelegate.readout, read_result being what the base readout returned.
Readout ==
    /\ delegate.flavour # "None"
    /\ \E read_result \in BOOLEAN :
          delegate' = [delegate EXCEPT
                          !.call = "readout", !.open = FALSE,
                          !.outcome = BoolName(read_result),
                          !.returned =
                              BoolName(~(delegate.shutter_failed \/ ~read_result))]
    /\ UNCHANGED << clientVars, lockVars, taskVars, streamVars, dropped, opVars,
                    alertVars, codecVars, statVars, checksumVars,
                    actor, closeResult, pending, answered >>

DelegateInit ==
    /\ OpIdle /\ AlertsOff /\ HostIdle /\ CodecIdle /\ Unconnected
    /\ mech_rebooted = FALSE
    /\ command_number = 0

DelegateNext ==
    \/ DelegateExpose
    \/ DelegateReset
    \/ \E open \in BOOLEAN : Shutter(open)
    \/ Readout

SpecDelegate == DelegateInit /\ [][DelegateNext]_vars

\* ------------------------------------------------------------------ claims

\* The caller is inside the write/read section of send_data.
InSection(t) == pc[t] = "read"

\* In this step caller t leaves send_data.
Finishes(t) == pc[t] # "done" /\ pc'[t] = "done"

\* In this step caller t leaves send_data with a decoded reply.
Decodes(t) ==
    /\ pc[t] = "read" /\ pc'[t] = "done"
    /\ reply'[t] \in ReplyCode \ {"CONNECTION_FAILED"}

\* C1: at most one send is inside its write/read section at any time, and the
\* one that is holds the lock.
C1_SendsSerialized ==
    /\ \A t1, t2 \in Tasks : InSection(t1) /\ InSection(t2) => t1 = t2
    /\ \A t \in Tasks : InSection(t) => lock = t

\* C1 witness: two sends overlap, one inside the section, one queued on the lock.
C1_Witness == \E t1, t2 \in Tasks : pc[t1] = "read" /\ pc[t2] = "lock"

C3_Orig ==
    [][ \A t \in Tasks :
            Timeout(t) => /\ reply'[t] = "CONNECTION_FAILED"
                          /\ writer' = "None" /\ reader' = "None"
                          /\ ~is_connected' ]_vars

\* C4 as stated: a send that fails on the connection returns CONNECTION_FAILED
\* and clears the handles, and until start() every send that had not written
\* its frame by then returns CONNECTION_FAILED and writes nothing.
C4_Orig ==
    [][ \A t \in Tasks :
          /\ (Finishes(t) /\ reply'[t] = "CONNECTION_FAILED")
                => (writer' = "None" /\ reader' = "None")
          /\ (Finishes(t) /\ dropped /\ ~InSection(t))
                => (reply'[t] = "CONNECTION_FAILED" /\ wire' = wire) ]_vars

\* C5 as stated: a send that waits for the terminator on a stream at end of
\* file eventually returns CONNECTION_FAILED, with the lock released and the
\* client disconnected.
C5_Orig ==
    \A t \in Tasks :
        (pc[t] = "read" /\ eof /\ inbuf = <<>>)
            ~> (pc[t] # "read" /\ lock # t)

\* C6 as stated: the handles and command_number change only under the lock,
\* so never while another caller is inside its write/read section.
C6_Orig ==
    [][ (writer' # writer \/ reader' # reader
            \/ command_number' # command_number)
          => \A t \in Tasks : InSection(t) => Finishes(t) ]_vars

\* C7 (as stated): once a send has returned CONTROLLER_REBOOTED and no ack
\* has been acknowledged since, an operation other than ack that is
\* dispatched ends with failure.
C7_Orig ==
    (opc = "done" /\ underReboot /\ op.kind # "ack") => term = "fail"

\* The raw replies to `!` that have an empty payload before `>`.
EmptyBeforePrompt(raw) ==
    /\ "bang" \notin Kinds(raw)
    /\ "gt" \in Kinds(raw)
    /\ \A i \in 1..(FirstIdx(raw, "gt") - 1) : raw[i].k \in {"tn", "nl"}

\* C8: ack finishes if and only if it sent `!` and the reply has code
\* REBOOT_ACKNOWLEDGED, which is the code of exactly the raw replies with
\* nothing before `>`; the reboot flag is then false; after `!` any other
\* code, VALID included, ends ack with failure.
C8_AckFinishesIffAcknowledged ==
    /\ \A raw \in MechAnswers("!") :
          (Parse(raw).code = "REBOOT_ACKNOWLEDGED") <=> EmptyBeforePrompt(raw)
    /\ (opc = "done" /\ op.kind = "ack") =>
          /\ term \in {"finish", "fail"}
          /\ (term = "finish") <=>
                (written = << "rt", "!" >> /\ lastCode = "REBOOT_ACKNOWLEDGED")
          /\ term = "finish" => ~reboot
          /\ (written = << "rt", "!" >> /\ lastCode = "VALID") => term = "fail"

\* An ack has sent `!`, got REBOOT_ACKNOWLEDGED from a rebooted specMech and
\* finished.
C8_Witness ==
    /\ opc = "done" /\ op.kind = "ack" /\ term = "finish"
    /\ underReboot /\ ~rebootSeen
    /\ written = << "rt", "!" >> /\ lastCode = "REBOOT_ACKNOWLEDGED"

\* The field of a mechanism in the PNU fields a poll has read.
Shows(m, fields, open) ==
    LET i == CASE m = "shutter" -> 1 [] m = "left" -> 2 [] m = "right" -> 3
    IN fields[i] = (IF open THEN "o" ELSE "c")

\* What the polls of every pneumatic_move have added up to.
PollCounts ==
    \A m \in Mechanisms :
       /\ pm[m].polls <= 2
       /\ pm[m].warned <= 1
       /\ pm[m].polls = 2 => pm[m].warned = 1
       /\ pm[m].pc = "send" => pm[m].polls = 0
       /\ pm[m].pc = "poll" => pm[m].polls < 2 /\ pm[m].warned = pm[m].polls
       /\ pm[m].pc = "True" => pm[m].polls >= 1 /\ pm[m].warned = pm[m].polls - 1
       /\ pm[m].pc \in {"report", "report2"} => pm[m].polls = 2

\* One step of a pneumatic_move.
PollStep(m) ==
    LET polled == pm'[m].polls = pm[m].polls + 1
        open == op.kind = "open"
    IN /\ pm'[m].polls # pm[m].polls => polled \/ pm'[m].pc = "off"
       /\ polled =>
             /\ pm[m].pc = "poll"
             /\ IF status' = <<>>
                THEN pm'[m].pc \in {"SpecMechError", "IndexError", "ValueError"}
                     /\ pm'[m].warned = pm[m].warned
                ELSE IF Shows(m, status', open)
                THEN pm'[m].pc = "True" /\ pm'[m].warned = pm[m].warned
                ELSE IF pm[m].polls = 0
                THEN /\ pm'[m].pc = "poll"
                     /\ pm'[m].warned = 1
                     /\ warnings' = warnings + 1
                ELSE /\ pm'[m].pc = "report"
                     /\ pm'[m].warned = 1
                     /\ warnings' = warnings
       /\ (pm'[m].pc = "True" /\ pm[m].pc # "True") =>
             polled /\ status' # <<>> /\ Shows(m, status', open)
       /\ (pm[m].pc \in {"report", "report2"} /\ pm'[m] # pm[m]) =>
             pm'[m].pc \in {"report2", "SpecMechError"} /\ pm'[m].polls = 2

\* C9: a pneumatic_move polls at most twice; a poll that shows the target in
\* the field of its mechanism returns True; a first poll that misses gives
\* one warning and a second poll; a second poll that misses ends in
\* SpecMechError; True is returned only by a poll that showed the target.
C9_PollsTwiceAtMost ==
    /\ []PollCounts
    /\ [][\A m \in Mechanisms : PollStep(m)]_vars

\* A pneumatic_move missed at its first poll, warned once and returned True
\* at its second poll.
C9_Witness ==
    \E m \in Mechanisms :
       /\ opc = "gather" /\ m \in op.mechanisms
       /\ pm[m].pc = "True" /\ pm[m].polls = 2 /\ pm[m].warned = 1
       /\ status # <<>> /\ Shows(m, status, op.kind = "open")

\* The names of the motor move commands.
MoveCommandNames == { "md", "mA", "mB", "mC", "ma", "mb", "mc" }

\* C10 (as stated): a move has written a move command only if no axis
\* reported a speed or a triggered limit switch, the encoder bounds read were
\* the configured ones and the position every axis is sent to lies in
\* [min_microns, max_microns].
C10_Orig ==
    (op.kind = "move" /\ \E i \in DOMAIN written : written[i] \in MoveCommandNames) =>
       /\ ~mv.moving /\ ~mv.limited /\ mv.bounds
       /\ \A i \in 1..3 :
             /\ Target(op, mv.pos, i) >= min_microns
             /\ Target(op, mv.pos, i) <= max_microns

\* The position polls a move has made.
PositionPolls == Cardinality({ i \in DOMAIN written : written[i] = "rd" })

\* C11 (as stated): a move that waits makes at most two position polls; it
\* finishes only after a poll that reported every axis within `tolerance`
\* of the final position it computed; after two polls that missed it fails.
C11_Orig ==
    (op.kind = "move" /\ op.wait) =>
       /\ PositionPolls <= 2
       /\ (opc = "done" /\ term = "finish") =>
             /\ PositionPolls >= 1
             /\ mv.new # << >>
             /\ \A i \in 1..3 :
                   Abs(mv.new[i] - mv.final[i]) <= op.tolerance \div Scale
       /\ (opc = "done" /\ PositionPolls = 2 /\ lastCode = "VALID" /\ mv.new # << >>
             /\ \E i \in 1..3 :
                   Abs(mv.new[i] - mv.final[i]) > (op.tolerance + Abs(mv.final[i])) \div Scale)
             => term = "fail"

\* C12 (as stated): an open or close finishes only when the pneumatic_move
\* of every mechanism it named returned True; a move that ended with any
\* error keeps the command from finishing.
C12_Orig ==
    [][(opc = "gather" /\ opc' = "done" /\ term' = "finish") =>
          \A m \in op.mechanisms : pm[m].pc = "True"]_vars


\* A step in which alert a's check_alert returned or raised.
Checks(a) ==
    /\ alert[a].task = "check"
    /\ alert'[a].task # "check"
    /\ alerts_bot' = alerts_bot

\* C14: the public value of a temperature alert changes from v to not-v only
\* at a check whose own sample and the previously recorded sample are both
\* not-v; a check that raises records no sample and changes nothing.
C14_ChangesOnTwoAgreeingSamples ==
    [][\A a \in TemperatureAlerts :
          /\ alert'[a].value # alert[a].value =>
                /\ Checks(a)
                /\ alert'[a].sample = (IF alert'[a].value THEN "True" ELSE "False")
                /\ Len(alert[a].values_log) >= 1
                /\ alert[a].values_log[Len(alert[a].values_log)] = alert'[a].value
          /\ (Checks(a) /\ alert'[a].sample = "raise") =>
                alert'[a].values_log = alert[a].values_log]_vars

\* An alert that was on has just gone off: the check wrote the info message.
C14_Witness ==
    \E a \in TemperatureAlerts :
        /\ ~alert[a].value
        /\ alert[a].values_log = << FALSE, FALSE >>
        /\ emitted[a] = "i"
        /\ alert[a].task = "sleep"

\* C15: at every check of a temperature alert, a value that is true after the
\* check comes with a warning carrying the alert keyword, and a value that is
\* false comes with an info message only if the check turned it from true to
\* false.
C15_Orig ==
    [][\A a \in TemperatureAlerts :
          Checks(a) =>
             /\ alert'[a].value => emitted'[a] = "w"
             /\ (~alert'[a].value /\ emitted'[a] = "i") => alert[a].value]_vars

\* C16: a check that raises is followed by a warning and, after the interval,
\* by the next check; a task ends only when stop() cancelled it; after
\* AlertsBot.stop() no alert checks or emits again.
C16_HandlerSurvivesUntilStopped ==
    /\ [][\A a \in Alerts :
            (Checks(a) /\ alert'[a].sample = "raise") =>
                /\ emitted'[a] = "w:error"
                /\ alert'[a].task = "sleep"]_vars
    /\ [](\A a \in Alerts :
            alert[a].task \in {"cancelled", "ended"} => alerts_bot = "stopped")
    /\ [][alerts_bot = "stopped" =>
            /\ emitted' = Silent
            /\ \A a \in Alerts :
                  /\ alert'[a].task \in {"cancelled", "ended"}
                  /\ alert'[a].values_log = alert[a].values_log
                  /\ alert'[a].sample = alert[a].sample]_vars
    /\ \A a \in TemperatureAlerts :
          (alert[a].task = "sleep" /\ alert[a].sample = "raise")
             ~> (alert[a].task = "check" \/ alerts_bot = "stopped")

\* A task whose last check raised went on to the next check, and was ended by
\* stop() while it waited there.
C16_Witness ==
    /\ alerts_bot = "stopped"
    /\ \E a \in TemperatureAlerts :
          /\ alert[a].sample = "raise"
          /\ alert[a].task = "ended"
    /\ alert["yao_heartbeat"].sample = "alive"


\* C17: start() resets command_number to 0 and the reboot flag to false, so
\* that the first command framed after a close/start cycle carries number 1
\* and no reboot is pending.
C17_Orig ==
    [][(writer = "None" /\ writer' = "open") =>
          (command_number' = 0 /\ reboot' = FALSE)]_vars

\* A step in which caller t enters send_data.
Sends(t) == pc[t] = "idle" /\ pc'[t] # "idle"

\* C18: a send of a command other than `!` adds exactly one to command_number
\* and frames the command with the new value, a send of `!` leaves the counter
\* alone and frames `!` with no number; the frame a caller writes is the one
\* it built; the counter changes in no other step and never decreases.
C18_CountsAndFrames ==
    [][/\ command_number' >= command_number
       /\ command_number' # command_number => \E t \in Tasks : Sends(t)
       /\ \A t \in Tasks :
             Sends(t) =>
                /\ command_number' \in {command_number, command_number + 1}
                /\ command'[t] # NoFrame =>
                      IF command'[t].cmd = "!"
                      THEN command_number' = command_number /\ command'[t].id = 0
                      ELSE /\ command_number' = command_number + 1
                           /\ command'[t].id = command_number'
       /\ Len(wire') > Len(wire) =>
             \E t \in Tasks :
                /\ pc[t] \in {"idle", "lock"} /\ pc'[t] = "read"
                /\ wire' = Append(wire, command'[t])
                /\ command'[t] # NoFrame]_vars

\* The acknowledgement is on the wire, unnumbered, after the counter reached
\* its bound, and a numbered frame of another caller waits for the lock.
C18_Witness ==
    /\ command_number = MaxCommandNumber
    /\ \E t \in Tasks, u \in Tasks :
          /\ pc[t] = "read" /\ command[t] = [cmd |-> "!", id |-> 0]
          /\ pc[u] = "lock" /\ command[u].id = MaxCommandNumber

\* C19: for a command other than `!` the frame is <command>;<N>\r with N the
\* counter in decimal, and the command_id decoded from the echo of that frame
\* equals N.
C19_Orig ==
    (mechReply # NoReply /\ echo # << >>) =>
        /\ \E cmd \in FramedCommands :
              frame = cmd \o << ";" >> \o Str(command_number) \o << "\r" >>
        /\ mechReply.command_id = command_number

\* C20: check_reply returns for the codes VALID and REBOOT_ACKNOWLEDGED only,
\* and raises SpecMechError for every other code.
C20_Orig ==
    checked # "none" =>
        IF mechReply.code \in {"VALID", "REBOOT_ACKNOWLEDGED"}
        THEN checked = "return"
        ELSE checked = "SpecMechError"


\* C21: for a reply whose code is ERR_IN_REPLY check_reply raises the
\* SpecMechError that carries the code and the message of the ERR sentence; it
\* neither returns nor raises another exception, however many fields the ERR
\* sentence has.
C21_Orig ==
    (checked # "none" /\ mechReply.code = "ERR_IN_REPLY") => checked = "SpecMechError"


\* The sentences of a raw reply whose checksum verifies, in stream order.
Verified(raw) == SelectSeq(raw, LAMBDA x : x.k = "sent" /\ x.ok)

\* C22: when a sentence of a complete reply has the tag ERR the decoded code
\* is ERR_IN_REPLY, whatever sentences precede or follow it, and the data
\* hold every sentence that parsed, the ERR sentence included, in stream
\* order.
C22_Orig ==
    (/\ mechReply # NoReply
     /\ mechReply.code # "CONNECTION_FAILED"
     /\ "bang" \notin Kinds(rawReply)
     /\ \E i \in DOMAIN rawReply : rawReply[i].k = "sent" /\ rawReply[i].tag = "ERR")
    => /\ mechReply.code = "ERR_IN_REPLY"
       /\ mechReply.data = Verified(rawReply)


\* C23: the decoded code is CONTROLLER_REBOOTED exactly when a `!` stands in
\* the raw reply before any `>`; a `!` after the terminator of a complete
\* reply does not make it CONTROLLER_REBOOTED.
C23_Orig ==
    (mechReply # NoReply /\ mechReply.code # "CONNECTION_FAILED") =>
        (mechReply.code = "CONTROLLER_REBOOTED"
            <=> /\ FirstIdx(rawReply, "bang") > 0
                /\ \/ FirstIdx(rawReply, "gt") = 0
                   \/ FirstIdx(rawReply, "bang") < FirstIdx(rawReply, "gt"))


\* C24: every decoded reply has one code of ReplyCode; when the code is VALID
\* the command echo and every sentence of the data verified their checksums;
\* a raw reply that is only a command echo with a good checksum is VALID with
\* empty data.
C24_ValidMeansVerified ==
    (mechReply # NoReply /\ mechReply.code # "CONNECTION_FAILED") =>
        /\ mechReply.code \in ReplyCode
        /\ mechReply.code = "VALID" =>
              /\ \E i \in DOMAIN rawReply : rawReply[i] = Echo(TRUE)
              /\ \A i \in DOMAIN mechReply.data : mechReply.data[i].ok
        /\ (\E pre \in { << >>, << Lx("tn") >> }, end \in { << Lx("gt") >>, << Lx("nl"), Lx("gt") >> } :
               rawReply = pre \o << Echo(TRUE) >> \o end)
              => (mechReply.code = "VALID" /\ mechReply.data = << >>)

\* A reply with two sentences was decoded as VALID.
C24_Witness ==
    /\ mechReply.code = "VALID"
    /\ Len(mechReply.data) = 2
    /\ checked = "return"


\* The sentence tags of the specification's closed set.
ClosedTags ==
    { "CMD", "MTR", "ENV", "ORI", "PNU", "TIM", "VER", "VAC", "LN2", "S2", "ERR" }

ReportTable ==
    [ k \in { STATS[i] : i \in DOMAIN STATS } \cup { "nitrogen" } |->
        IF k = "nitrogen" THEN "rn" ELSE StatCommand(k) ]

\* The branch of get_stat that decodes the record of a kind.
RecordOf(k) == IF k \in { "motor-a", "motor-b", "motor-c" } THEN "motor" ELSE k

\* C26: for every kind of the table, nitrogen included, get_stat writes the
\* one report command of the kind and, when the specMech answers with the
\* sentence of that command, returns the record of the kind; for another kind
\* it raises without writing.
C26_Orig ==
    (statArg # "None" /\ result # NoResult) =>
        IF statArg \in DOMAIN ReportTable
        THEN /\ statSent = << ReportTable[statArg] >>
             /\ (/\ result.raised = "none"
                 /\ mechReply.data[1].tag = ReportTag(ReportTable[statArg]))
                => result.branch = RecordOf(statArg)
        ELSE /\ statSent = << >>
             /\ result.raised = "SpecMechError"

\* The word the pneumatics record has for a field, with `other` for a
\* character that is neither c nor o.
PnuWord(c, other) == IF c = "c" THEN "closed" ELSE IF c = "o" THEN "open" ELSE other

\* The pneumatics record agrees with the fields of the sentence, `other` being
\* the word of a mechanism in transit.
PnuRecordIs(other) ==
    (statArg = "pneumatics" /\ result.raised = "none" /\ result.branch = "pneumatics") =>
        LET f == mechReply.data[1].f IN
        /\ \A k \in 1..3 : result.value[k] = PnuWord(f[2 * k], other)
        /\ result.value[4] = (IF f[8] = "0" THEN "off" ELSE "on")
        /\ (f[2] = "o" /\ f[4] = "c" /\ f[6] = "o" /\ f[8] = "1") =>
              result.value = << "open", "closed", "open", "on" >>

\* C27 (as stated): fields 2, 4 and 6 map by c -> closed, o -> open, any other
\* value -> transitioning, and field 8 by 0 -> off, any other value -> on.
C27_Orig == PnuRecordIs("transitioning")

\* C27 (amended): fields 2, 4 and 6 map by c -> closed, o -> open, any other
\* value -> transiting, and field 8 by 0 -> off, any other value -> on.
C27_PneumaticsMapping == PnuRecordIs("transiting")

\* get_stat("pneumatics") returned a record for a sentence with a field in
\* transit and a field that is none of c, o, t.
C27_Witness ==
    /\ statArg = "pneumatics"
    /\ result.raised = "none" /\ result.branch = "pneumatics"
    /\ mechReply.data[1].f[2] = "t"
    /\ mechReply.data[1].f[4] = "x"
    /\ mechReply.data[1].f[6] = "o"
    /\ result.value = << "transiting", "transiting", "open", "on" >>


RECURSIVE HexValue(_)
\* The number a string of hexadecimal digits denotes, in either letter case.
HexValue(digits) ==
    IF digits = << >> THEN 0
    ELSE LET ch == digits[Len(digits)]
             d == CHOOSE k \in 1..16 : UpperHex[k] = ch \/ LowerHex[k] = ch
         IN 16 * HexValue(SubSeq(digits, 1, Len(digits) - 1)) + (d - 1)

\* The message verified is body, `*` and the checksum field chk.
Verifies(body, chk) ==
    /\ verdict # NoVerdict
    /\ \E pre \in { << >>, << "$" >> } : message = pre \o body \o << "*" >> \o chk

\* C28: the checksum calculated for a body is the XOR of its bytes as two
\* uppercase hexadecimal digits; check_checksum is true when the field is
\* that string and false when the field denotes another value.
C28_ChecksumIsXor ==
    \A body \in Bodies, chk \in Checksums :
        Verifies(body, chk) =>
            /\ verdict.raised = "none"
            /\ Len(verdict.calculated) = 2
            /\ \A i \in 1..2 : \E d \in 1..16 : UpperHex[d] = verdict.calculated[i]
            /\ HexValue(verdict.calculated) = XorAll(body)
            /\ body = << "A", "K" >> => verdict.calculated = << "0", "A" >>
            /\ chk = verdict.calculated => verdict.ok
            /\ HexValue(chk) # XorAll(body) => ~verdict.ok

\* A body whose XOR is below 16 verified with the zero-padded field.
C28_Witness ==
    /\ Verifies(<< "A", "K" >>, << "0", "A" >>)
    /\ verdict.ok

\* C29: check_checksum accepts the right value in any letter case and without
\* its leading zero.
C29_Orig ==
    \A body \in Bodies, chk \in Checksums :
        (Verifies(body, chk) /\ HexValue(chk) = XorAll(body)) => verdict.ok


\* The move commands the operation list gives an invocation, each with its
\* POS: md without --motor for a relative move, mA, mB, mC without --motor
\* for --absolute or --center, the letter of --motor in upper case for an
\* absolute move and in lower case for a relative one.
ListedCommands(o) ==
    LET pos == IF o.center THEN center_position
               ELSE IF o.position = << >> THEN 0 ELSE o.position[1]
        upper == CASE o.motor = "a" -> "mA" [] o.motor = "b" -> "mB"
                   [] o.motor = "c" -> "mC" [] OTHER -> "m"
        lower == CASE o.motor = "a" -> "ma" [] o.motor = "b" -> "mb"
                   [] o.motor = "c" -> "mc" [] OTHER -> "m"
    IN IF o.motor = "None"
       THEN IF ~o.absolute /\ ~o.center THEN << << "md", pos >> >>
            ELSE << << "mA", pos >>, << "mB", pos >>, << "mC", pos >> >>
       ELSE IF o.absolute \/ o.center THEN << << upper, pos >> >>
            ELSE << << lower, pos >> >>

\* s is an initial part of t.
IsPrefix(s, t) == Len(s) <= Len(t) /\ \A i \in DOMAIN s : s[i] = t[i]

\* The names of the move commands written, in order.
MovesWritten == SelectSeq(written, LAMBDA c : c \in MoveCommandNames)

\* A move writes the listed commands and no others: what it has written is
\* an initial part of the list, and the whole list once every reply was
\* accepted.
WritesListed ==
    /\ IsPrefix(mv.commands, ListedCommands(op))
    /\ MovesWritten = [i \in DOMAIN mv.commands |-> mv.commands[i][1]]
    /\ (mv.pc = "converge" \/ (opc = "done" /\ term = "finish"))
          => mv.commands = ListedCommands(op)

\* C30 (as stated): a move writes the listed move commands and no others,
\* and the argument checks fail it only when POSITION is missing without
\* --center: --absolute without --motor is a move of the three motors.
C30_Orig ==
    op.kind = "move" =>
       /\ WritesListed
       /\ mv.rejected => (~op.center /\ op.position = << >>)

\* The invocations the argument checks of move fail: --absolute without
\* --motor, and no POSITION without --center.
ArgsRefused(o) ==
    \/ o.absolute /\ o.motor = "None"
    \/ ~o.center /\ o.position = << >>

\* C30 (amended): a move writes the listed move commands and no others,
\* each with its POS; a move with --absolute and without --motor is failed
\* by the argument checks and writes nothing, so mA, mB, mC in a row are
\* written only for --center without --absolute.
C30_MoveCommands ==
    op.kind = "move" =>
       /\ WritesListed
       /\ mv.rejected => ArgsRefused(op)
       /\ ArgsRefused(op) => (mv.pc = "off" /\ mv.commands = << >>)

\* A move with --center and neither --motor nor --absolute has written mA,
\* mB and mC with center_position and finished.
C30_Witness ==
    /\ op.kind = "move" /\ op.center /\ op.motor = "None" /\ ~op.absolute
    /\ opc = "done" /\ term = "finish"
    /\ mv.commands = << << "mA", center_position >>, << "mB", center_position >>,
                        << "mC", center_position >> >>
    /\ MovesWritten = << "mA", "mB", "mC" >>

\* The pneumatic_move records a step changes.
Stepped == { m \in Mechanisms : pm'[m] # pm[m] }

\* A step inside gather is one exchange of one pneumatic_move: it changes
\* the record of that move only, and a move returns True in the step of
\* its own poll, iff the field of its own mechanism shows the target there.
OwnPollsDecide ==
    (opc = "gather" /\ opc' = "gather") =>
       /\ Cardinality(Stepped) <= 1
       /\ \A m \in Stepped :
             /\ pm[m].pc \notin MoveEnded
             /\ (pm[m].pc = "poll" /\ status' # << >>) =>
                   (pm'[m].pc = "True" <=> Shows(m, status', op.kind = "open"))
             /\ pm'[m].pc = "True" =>
                   pm[m].pc = "poll" /\ pm[m].polls < 2 /\ status' # << >>
       /\ command_number' # command_number => Cardinality(Stepped) = 1

\* C31: concurrent pneumatic moves of distinct mechanisms exchange one
\* command and reply at a time, and each move succeeds iff the field of its
\* own mechanism (shutter 2, left 4, right 6) showed the target in one of
\* its own two polls, whatever the other moves do in between.
C31_OwnPollsDecide == [][OwnPollsDecide]_vars

\* Two moves run together: one returned True at its second poll, the other
\* missed twice.
C31_Witness ==
    /\ opc = "gather" /\ op.kind = "open" /\ op.mechanisms = {"shutter", "right"}
    /\ pm["shutter"].pc = "True" /\ pm["shutter"].polls = 2
    /\ pm["right"].pc = "report" /\ pm["right"].polls = 2
    /\ status # << >> /\ status[1] = "o" /\ status[3] = "c"

\* The operations guarded by check_controller.
Guarded ==
    {"status", "move", "ack", "talk", "set_time", "open", "close", "reboot", "fan"}

\* check_controller returns: False, with the command failed, when the client
\* is not connected (nothing written) and when the probe timed out (only
\* `rt` written).
CheckReturns ==
    (opc = "check" /\ opc' # "check") =>
       /\ op.kind \in Guarded
       /\ writer = "None" =>
             /\ opc' = "done" /\ term' = "fail"
             /\ written' = << >> /\ command_number' = command_number
       /\ (writer # "None" /\ lastCode' = "TimeoutError") =>
             /\ opc' = "done" /\ term' = "fail" /\ written' = << "rt" >>
       /\ opc' = "body" => writer # "None" /\ written' = << "rt" >>

\* After check_controller returned False the operation sends nothing.
SilentAfterFalse ==
    opc = "done" => (command_number' = command_number /\ (written' = written \/ opc' = "check"))

\* C32: check_controller fails the command and returns False when the
\* client is not connected, writing nothing, and when its `rt` probe times
\* out; the guarded operation then sends no further command.
C32_CheckControllerGuards == [][CheckReturns /\ SilentAfterFalse]_vars

\* A guarded operation ended in failure with only the probe written, the
\* probe having timed out.
C32_Witness ==
    /\ opc = "done" /\ term = "fail" /\ op.kind = "reboot"
    /\ written = << "rt" >> /\ lastCode = "TimeoutError"

\* C33 (as stated): the time-sync task exists only when the client
\* connected at start; the time string of a set-time has no fraction; the
\* task sleeps 86400 s after a success and 60 s after a failure and goes
\* on; a stopped actor has no running time-sync task.
C33_Orig ==
    /\ actor.task # "None" => actor.connected
    /\ \A i \in DOMAIN actor.last : actor.last[i] \notin {".", "250000", "000000"}
    /\ actor.task = "sleep" => actor.slept = (IF actor.failed THEN 60 ELSE 86400)
    /\ actor.state = "stopped" => actor.task \in {"None", "cancelled"}

\* What holds after a close(), until the next start(): it returned, the
\* handles are cleared and is_connected() is false.
AfterClose ==
    closeResult # "none" =>
       /\ closeResult = "returned"
       /\ writer = "None" /\ reader = "None"
       /\ ~is_connected

\* A close() after a close() leaves the client as it was, and the start()
\* after a close() connects the client.
CloseThenStart ==
    /\ (closeResult = "returned" /\ closeResult' = "returned") =>
          UNCHANGED << writer, reader >>
    /\ (closeResult # "none" /\ closeResult' = "none") =>
          writer' = "open" /\ reader' = "open" /\ ~eof' /\ ~exc'

\* C34 (as stated): in every client state close() returns, leaves the
\* handles cleared and is_connected() false; a second close changes nothing
\* and raises nothing; a later start() connects the client again.
C34_Orig == []AfterClose /\ [][CloseThenStart]_vars

\* C35 (as stated): a VALID reply a send returns answers the frame that
\* send wrote, never the frame of an abandoned send.
C35_Orig ==
    \A t \in Tasks :
       (reply[t] = "VALID" /\ answered[t] # NoAnswer) =>
          answered[t].got = answered[t].sent

\* C36 (as stated): once a move has passed the range check, the final
\* position of every axis is the integer current + POSITION of a relative
\* move and POSITION of an absolute one, never that value reduced modulo
\* 2^16.
C36_Orig ==
    (op.kind = "move" /\ mv.pc \in {"write", "converge"}) =>
       \A i \in 1..3 : mv.final[i] = Target(op, mv.pos, i)

\* The lock is held only by a caller inside the write/read section, and a
\* caller outside send_data neither holds it nor queues for it.
HeldInsideOnly ==
    \A t \in Tasks :
       /\ lock = t => pc[t] = "read"
       /\ pc[t] \in {"idle", "done"} =>
             lock # t /\ \A i \in DOMAIN waiters : waiters[i] # t

\* A caller that leaves send_data, however it leaves, does not hold the
\* lock afterwards; when it held it, the lock is free.
FreedOnExit ==
    \A t \in Tasks :
       Finishes(t) => (lock' # t /\ (lock = t => lock' = NoTask))

\* C37: on every exit path of send (decoded reply, connection error,
\* timeout, cancellation while waiting for the lock or for the reply) the
\* lock is free afterwards: no caller that finished or was abandoned holds or
\* queues for it.
C37_LockFreedOnExit == []HeldInsideOnly /\ [][FreedOnExit]_vars

\* A send was cancelled while it waited for its reply, and another caller
\* has taken the lock since.
C37_Witness ==
    \E t1, t2 \in Tasks :
       /\ reply[t1] = "CancelledError" /\ pc[t1] = "done"
       /\ pc[t2] = "read" /\ lock = t2 /\ command[t2].id = 2

\* C38 (as stated): for a reply that passes check_reply, an echo without
\* sentences included, get_stat returns a record or raises SpecMechError and
\* no other exception.
C38_Orig ==
    (result # NoResult /\ statSent # << >> /\ check_reply(mechReply) = "return") =>
       result.raised \in {"none", "SpecMechError"}

\* The move is the one of --center without --motor.
CenterMove ==
    op.kind = "move" /\ op.center /\ op.motor = "None" /\ ~op.absolute

\* During the writes nothing but mA, mB, mC in that order has been written
\* and no position poll made; the polls start after the three.
WrittenInOrder ==
    CenterMove =>
       /\ IsPrefix(MovesWritten, << "mA", "mB", "mC" >>)
       /\ mv.pc \in {"off", "stat", "dmm", "write"} => PositionPolls = 0
       /\ mv.pc = "write" /\ opc = "body" =>
             /\ Len(MovesWritten) = mv.ii - 1
             /\ mv.ii > 1 => CheckReply(lastCode)
       /\ mv.pc = "converge" =>
             MovesWritten = << "mA", "mB", "mC" >>

\* A reply to a move command that check_reply rejects ends the command in
\* failure, at the write it answered.
FailedReplyStops ==
    (CenterMove /\ mv.pc = "write" /\ opc = "body" /\ lastCode' # lastCode
       /\ lastCode' \in ReplyCode /\ ~CheckReply(lastCode')) =>
       /\ opc' = "done" /\ term' = "fail"
       /\ mv'.pc = "write"

ShutterCallFailed ==
    delegate.call = "shutter" /\ delegate.outcome \in ShutterCaught

ShutterOutcomes ==
    /\ (ShutterCallFailed /\ delegate.open) => delegate.returned = "False"
    /\ (ShutterCallFailed /\ ~delegate.open) =>
          (delegate.returned = "True" /\ delegate.shutter_failed)
    /\ (delegate.call = "readout" /\ delegate.shutter_failed) =>
          delegate.returned = "False"
    /\ (delegate.call = "shutter" /\ NoShutter(delegate)) =>
          (delegate.outcome = "none" /\ delegate.returned = "True")

FlagKeptUntilReset ==
    /\ (delegate.shutter_failed /\ ~delegate'.shutter_failed) =>
          delegate'.call = "reset"
    /\ (delegate'.call = "shutter" /\ NoShutter(delegate')) =>
          delegate'.moves = delegate.moves

C40_ShutterFailures == []ShutterOutcomes /\ [][FlagKeptUntilReset]_vars

C40_Witness ==
    /\ delegate.call = "shutter" /\ ~delegate.open
    /\ delegate.outcome = "TimeoutError"
    /\ delegate.returned = "True"
    /\ delegate.shutter_failed
    /\ delegate.moves = 2

================================================================
